---- MODULE Spec2Model ----
(***************************************************************************)
(* yk-dns-manager: the HTTPRoute reconciler, the domain map, and the       *)
(* OPNsense provider with its backend record table.                        *)
(*                                                                         *)
(* A hostname is the sequence of its dot-separated labels, so the string   *)
(* "app.example.com" is <<"app", "example", "com">> and a trailing dot     *)
(* shows as a last empty label.                                            *)
(***************************************************************************)
EXTENDS Integers, Sequences, FiniteSets, TLC

(* ------------------------------ bounds -------------------------------- *)

\* Longest hostname list a user declares on the resource.
MaxHosts == 2

\* Size of the pool the backend draws record ids from.
MaxUUID == 3

\* Writes other actors make to the resource's hostnames, finalizers and
\* deletion marker in one behaviour.
MaxEdits == 2

\* Highest metadata.generation a watched resource reaches.
MaxGeneration == 3

(* ----------------------------- constants ------------------------------ *)

finalizerName == "dns.yk/cleanup"

\* A finalizer another controller owns.
otherFinalizer == "other/finalizer"

\* retry.DefaultRetry: Steps = 5.
RetrySteps == 5

H1 == "app.my-domain1.com"
H2 == "api.my-domain2.it"
H3 == "app.unknown.com"

\* strings.Split(h, ".") for the hostnames in use.
Labels(h) ==
    CASE h = H1 -> <<"app", "my-domain1", "com">>
      [] h = H2 -> <<"api", "my-domain2", "it">>
      [] h = H3 -> <<"app", "unknown", "com">>
      [] h = "" -> <<"">>

Hosts == {H1, H2, H3}

\* The hostname lists a user declares: every list of up to MaxHosts distinct
\* hostnames, and one list that repeats a hostname (the API does not reject it).
HostLists ==
    {hs \in UNION {[1..n -> Hosts] : n \in 0..MaxHosts} :
        \A i, j \in 1..Len(hs) : hs[i] = hs[j] => i = j}
      \cup {<<H1, H1>>}

\* newTestDomainMap: "my-domain1.com: 10.0.8.100\nmy-domain2.it: 10.0.9.50\n"
TestDomainMap ==
    (<<"my-domain1", "com">> :> "10.0.8.100") @@ (<<"my-domain2", "it">> :> "10.0.9.50")

ManagedDescription == "managed by yk-dns-manager"

(* ----------------------------- DomainMap ------------------------------ *)

\* Variant of TrimSuffixDot: a trailing dot is kept.
TrimSuffixDotKept(h) == h

\* strings.TrimSuffix(s, "."): drops one trailing dot, when there is one.
TrimSuffixDot(h) ==
    IF Len(h) >= 2 /\ h[Len(h)] = "" THEN SubSeq(h, 1, Len(h) - 1) ELSE h

\* Variant of LookupWalk: at each step the wildcard entry of the parent is
\* tried before the exact entry.
RECURSIVE LookupWalkWildcardFirst(_, _)
LookupWalkWildcardFirst(entries, h) ==
    IF h = <<"">> THEN [ip |-> "", ok |-> FALSE]
    ELSE IF Len(h) > 1 /\ (<<"*">> \o Tail(h)) \in DOMAIN entries
         THEN [ip |-> entries[<<"*">> \o Tail(h)], ok |-> TRUE]
    ELSE IF h \in DOMAIN entries THEN [ip |-> entries[h], ok |-> TRUE]
    ELSE IF Len(h) = 1 THEN [ip |-> "", ok |-> FALSE]
    ELSE LookupWalkWildcardFirst(entries, Tail(h))

\* Variant of LookupWalk: the wildcard entry tried at a step is the one of the
\* name itself, so "*.d" matches d.
RECURSIVE LookupWalkWildcardSelf(_, _)
LookupWalkWildcardSelf(entries, h) ==
    IF h = <<"">> THEN [ip |-> "", ok |-> FALSE]
    ELSE IF h \in DOMAIN entries THEN [ip |-> entries[h], ok |-> TRUE]
    ELSE IF (<<"*">> \o h) \in DOMAIN entries
         THEN [ip |-> entries[<<"*">> \o h], ok |-> TRUE]
    ELSE IF Len(h) = 1 THEN [ip |-> "", ok |-> FALSE]
    ELSE LookupWalkWildcardSelf(entries, Tail(h))

\* Variant of LookupWalk: the walk runs from the last label towards the full
\* hostname, so the least specific entry wins.
RECURSIVE LookupWalkShallowFirst(_, _)
LookupWalkShallowFirst(entries, h) ==
    LET up == IF Len(h) > 1 THEN LookupWalkShallowFirst(entries, Tail(h))
              ELSE [ip |-> "", ok |-> FALSE]
    IN  IF h = <<"">> THEN [ip |-> "", ok |-> FALSE]
        ELSE IF up.ok THEN up
        ELSE IF h \in DOMAIN entries THEN [ip |-> entries[h], ok |-> TRUE]
        ELSE IF Len(h) > 1 /\ (<<"*">> \o Tail(h)) \in DOMAIN entries
             THEN [ip |-> entries[<<"*">> \o Tail(h)], ok |-> TRUE]
        ELSE [ip |-> "", ok |-> FALSE]

\* Variant of LookupWalk: an exact entry of any label suffix is taken before
\* any wildcard entry.
RECURSIVE LookupWalkExactFirst(_, _)
LookupWalkExactFirst(entries, h) ==
    LET exact == {i \in 1..Len(h) : SubSeq(h, i, Len(h)) \in DOMAIN entries}
        wild == {i \in 2..Len(h) : (<<"*">> \o SubSeq(h, i, Len(h))) \in DOMAIN entries}
        lo(S) == CHOOSE i \in S : \A j \in S : i <= j
    IN  IF h = <<"">> THEN [ip |-> "", ok |-> FALSE]
        ELSE IF exact # {}
             THEN [ip |-> entries[SubSeq(h, lo(exact), Len(h))], ok |-> TRUE]
        ELSE IF wild # {}
             THEN [ip |-> entries[<<"*">> \o SubSeq(h, lo(wild), Len(h))], ok |-> TRUE]
        ELSE [ip |-> "", ok |-> FALSE]

\* The loop of LookupIP, started at h.
RECURSIVE LookupWalk(_, _)
LookupWalk(entries, h) ==
    IF h = <<"">> THEN [ip |-> "", ok |-> FALSE]
    ELSE IF h \in DOMAIN entries THEN [ip |-> entries[h], ok |-> TRUE]
    ELSE IF Len(h) = 1 THEN [ip |-> "", ok |-> FALSE]
    ELSE IF (<<"*">> \o Tail(h)) \in DOMAIN entries
         THEN [ip |-> entries[<<"*">> \o Tail(h)], ok |-> TRUE]
    ELSE LookupWalk(entries, Tail(h))

LookupIP(entries, hostname) == LookupWalk(entries, TrimSuffixDot(hostname))

(* ------------------------- provider and backend ------------------------ *)

\* strings.EqualFold on the labels in use: the upper-case spelling of a label
\* folds to the lower-case one.
FoldLabel(l) == IF l = "APP" THEN "app" ELSE IF l = "API" THEN "api" ELSE l

FoldSeq(s) == [i \in 1..Len(s) |-> FoldLabel(s[i])]

EqualFold(a, b) == FoldLabel(a) = FoldLabel(b)

EqualFoldSeq(a, b) == FoldSeq(a) = FoldSeq(b)

\* SplitHostname: the first label and the rest ("" when there is one label).
SplitHostname(fqdn) ==
    LET f == TrimSuffixDot(Labels(fqdn))
    IN  IF Len(f) < 2 THEN [hostname |-> f, domain |-> <<"">>]
        ELSE [hostname |-> <<f[1]>>, domain |-> Tail(f)]

\* The rows of the backend that findOverride accepts for (fqdn, recordType).
Matching(rows, fqdn, recordType) ==
    LET s == SplitHostname(fqdn)
    IN  {r \in rows : /\ EqualFoldSeq(r.hostname, s.hostname)
                      /\ EqualFoldSeq(r.domain, s.domain)
                      /\ EqualFold(r.rr, recordType)}

\* buildHostBody: the row an add or set request carries.
buildHostBody(record) ==
    LET s == SplitHostname(record.Hostname)
    IN  [hostname |-> s.hostname, domain |-> s.domain, rr |-> record.Type,
         server |-> record.Value,
         description |-> IF "description" \in DOMAIN record.Meta
                         THEN record.Meta["description"] ELSE ""]

WithUUID(body, id) ==
    [uuid |-> id, hostname |-> body.hostname, domain |-> body.domain,
     rr |-> body.rr, server |-> body.server, description |-> body.description]

UsedUUIDs(rows) == {r.uuid : r \in rows}

FreeUUIDs(rows) == (1..MaxUUID) \ UsedUUIDs(rows)

\* Exists: the outcomes of one call, [found, err].
ProviderExists(rows, hostname, recordType) ==
    {[found |-> Matching(rows, hostname, recordType) # {}, err |-> FALSE],
     [found |-> FALSE, err |-> TRUE]}

\* Create: addHostOverride then reconfigure; outcomes [rows, err].
ProviderCreate(rows, record) ==
    LET free == FreeUUIDs(rows)
        added == IF free = {} THEN rows
                 ELSE rows \cup {WithUUID(buildHostBody(record),
                                          CHOOSE i \in free : \A j \in free : i <= j)}
    IN  {[rows |-> rows, err |-> TRUE]}
          \cup (IF free = {} THEN {}
                ELSE {[rows |-> added, err |-> FALSE], [rows |-> added, err |-> TRUE]})

\* Variant of ProviderUpdate: a record that is missing is created.
ProviderUpdateOrCreate(rows, record) ==
    LET m == Matching(rows, record.Hostname, record.Type)
        set(r) == (rows \ {r}) \cup {WithUUID(buildHostBody(record), r.uuid)}
    IN  IF m = {} THEN ProviderCreate(rows, record)
        ELSE {[rows |-> rows, err |-> TRUE]}
               \cup UNION {{[rows |-> set(r), err |-> FALSE],
                            [rows |-> set(r), err |-> TRUE]} : r \in m}

\* Variant of ProviderUpdate: the new row is added and the old one stays.
ProviderUpdateAdds(rows, record) ==
    IF Matching(rows, record.Hostname, record.Type) = {}
    THEN {[rows |-> rows, err |-> TRUE]}
    ELSE ProviderCreate(rows, record)

\* Update: findOverride, setHostOverride, reconfigure; outcomes [rows, err].
ProviderUpdate(rows, record) ==
    LET m == Matching(rows, record.Hostname, record.Type)
        set(r) == (rows \ {r}) \cup {WithUUID(buildHostBody(record), r.uuid)}
    IN  {[rows |-> rows, err |-> TRUE]}
          \cup UNION {{[rows |-> set(r), err |-> FALSE], [rows |-> set(r), err |-> TRUE]}
                      : r \in m}

\* Variant of ProviderDelete: every row of the record type goes with the
\* matching one.
ProviderDeleteByType(rows, hostname, recordType) ==
    LET m == Matching(rows, hostname, recordType)
        left == {r \in rows : ~EqualFold(r.rr, recordType)}
    IN  {[rows |-> rows, err |-> TRUE]}
          \cup (IF m = {} THEN {}
                ELSE {[rows |-> left, err |-> FALSE], [rows |-> left, err |-> TRUE]})

\* Variant of ProviderDelete: deleting a record that is missing succeeds.
ProviderDeleteIdempotent(rows, hostname, recordType) ==
    LET m == Matching(rows, hostname, recordType)
    IN  {[rows |-> rows, err |-> TRUE]}
          \cup (IF m = {} THEN {[rows |-> rows, err |-> FALSE]} ELSE {})
          \cup UNION {{[rows |-> rows \ {r}, err |-> FALSE],
                       [rows |-> rows \ {r}, err |-> TRUE]} : r \in m}

\* Delete: findOverride, delHostOverride, reconfigure; outcomes [rows, err].
ProviderDelete(rows, hostname, recordType) ==
    LET m == Matching(rows, hostname, recordType)
    IN  {[rows |-> rows, err |-> TRUE]}
          \cup UNION {{[rows |-> rows \ {r}, err |-> FALSE],
                       [rows |-> rows \ {r}, err |-> TRUE]} : r \in m}

\* Upsert: Exists, then Update or Create.
ProviderUpsert(rows, record) ==
    UNION {IF e.err THEN {[rows |-> rows, err |-> TRUE]}
           ELSE IF e.found THEN ProviderUpdate(rows, record)
           ELSE ProviderCreate(rows, record)
           : e \in ProviderExists(rows, record.Hostname, record.Type)}

(* --------------------------- resource store ---------------------------- *)

\* A Go []string: a nil slice and an empty one are different values.
NilSlice == [isNil |-> TRUE, elems |-> <<>>]

MakeSlice(seq) == [isNil |-> FALSE, elems |-> seq]

\* The value of the managed-hostnames annotation (a JSON text), or its absence.
NoAnnotation == [present |-> FALSE, kind |-> "none", items |-> <<>>]

\* json.Marshal of a []string: a nil slice is "null", any other one an array.
JSONMarshal(slice) ==
    IF slice.isNil THEN [present |-> TRUE, kind |-> "null", items |-> <<>>]
    ELSE [present |-> TRUE, kind |-> "array", items |-> slice.elems]

\* An element of a JSON array that is a number, not a string.
JSONNumber == "#1"

\* json.Unmarshal into a nil []string, its error dropped: an array fills the
\* slice, an element that is not a string leaving the zero value "" in its
\* place (the UnmarshalTypeError is returned after the whole array is decoded);
\* "null", a value that is no array and a text that is no JSON leave it nil.
JSONUnmarshal(val) ==
    IF val.kind = "array"
    THEN MakeSlice([i \in 1..Len(val.items) |->
                       IF val.items[i] = JSONNumber THEN "" ELSE val.items[i]])
    ELSE NilSlice

\* reflect.DeepEqual on two []string.
DeepEqual(a, b) == a.isNil = b.isNil /\ a.elems = b.elems

\* Contains(list, x): x is an element of list.
Contains(list, x) == \E i \in 1..Len(list) : list[i] = x

\* The key holds no resource.
NoRoute ==
    [exists |-> FALSE, deleting |-> FALSE, finalizers |-> {}, hostnames |-> <<>>,
     annotation |-> NoAnnotation]

ContainsFinalizer(obj, f) == f \in obj.finalizers

AddFinalizer(obj, f) == [obj EXCEPT !.finalizers = @ \cup {f}]

RemoveFinalizer(obj, f) == [obj EXCEPT !.finalizers = @ \ {f}]

\* The store completes the deletion of a marked resource once its last
\* finalizer is gone.
Settle(obj) == IF obj.deleting /\ obj.finalizers = {} THEN NoRoute ELSE obj

\* client.Update(obj) against the stored resource cur; isStale: the
\* resourceVersion of obj is not the stored one.  [res, store]
StoreUpdate(cur, obj, isStale) ==
    IF ~cur.exists THEN [res |-> "notfound", store |-> cur]
    ELSE IF isStale THEN [res |-> "conflict", store |-> cur]
    ELSE IF cur.deleting /\ ~(obj.finalizers \subseteq cur.finalizers)
         THEN [res |-> "invalid", store |-> cur]
    ELSE [res |-> "ok",
          store |-> Settle([cur EXCEPT !.finalizers = obj.finalizers,
                                       !.hostnames = obj.hostnames,
                                       !.annotation = obj.annotation])]

(* ------------------------------- state -------------------------------- *)

VARIABLES
    store,             \* the HTTPRoute under the reconciled key
    backend,           \* the host-override rows of the DNS backend
    upsert,            \* HTTPRouteReconciler.Upsert
    pc,                \* where the running pass is ("idle": none runs)
    route,             \* the pass's copy of the resource
    stale,             \* the resource was written after route was read
    managedHostnames,  \* previous managed set, from the annotation
    currentHostnames,  \* the hostnames the pass read
    idx,               \* loop index of the running loop
    attempts,          \* Conflicts the current or last retry loop met
    passKind,          \* the branch the current or last pass took
    calls,             \* Provider calls of the current or last pass
    wrote,             \* the resource write the current or last pass made
    result,            \* outcome of the current or last pass
    first,             \* what the pass's initial read returned, of the fields it reads
    lastErr,           \* outcome of the latest Get or Update of a retry loop
    edits,             \* edits other actors made so far
    dmEntries,         \* DomainMap.entries of a map LookupIP is called on directly
    lookupHostname,    \* the hostname of that call
    lookupResult,      \* what the call returned
    history,           \* the latest call of a direct Provider client
    factories,         \* the provider registry: name to Factory
    registryCall,      \* the latest call of Register or NewProvider
    event,             \* the latest update event of the watch, and the filter's answer
    steady,            \* the resource and backend a steady-state observer recorded
    workers            \* the passes of a pool of workers, one per resource key

\* The state of the direct callers of LookupIP and of the Provider, which
\* Reconcile does not touch.
directVars == <<dmEntries, lookupHostname, lookupResult, history, factories,
                registryCall, event, steady, workers>>

vars ==
    <<store, backend, upsert, pc, route, stale, managedHostnames, currentHostnames,
      idx, attempts, passKind, calls, wrote, result, first, lastErr, edits,
      directVars>>

\* What is recorded of a pass: its branch, Provider calls, resource write,
\* outcome, initial read, and the Conflicts and last outcome of its retry loop.
passRecord == <<passKind, calls, wrote, result, first, lastErr, attempts>>

\* The fields of a resource that Reconcile reads.
Read(obj) == [obj EXCEPT !.finalizers = @ \cap {finalizerName}]

UpdatePcs == {"addfin_upd", "rmfin_upd", "ann_upd"}

\* A record a user entered by hand before the controller ran.
ManualRow ==
    [uuid |-> 1, hostname |-> <<"APP">>, domain |-> <<"my-domain1", "com">>,
     rr |-> "A", server |-> "192.0.2.1", description |-> ""]

\* LookupIP was not called.
NoLookup == [ip |-> "", ok |-> FALSE, called |-> FALSE]

\* Neither Register nor NewProvider was called.
NoRegistryCall ==
    [op |-> "none", name |-> "", factory |-> "", panicked |-> FALSE, err |-> FALSE,
     constructed |-> ""]

\* The registry once the provider packages are loaded: opnsense's init() has
\* registered its Factory.
LoadedRegistry ==
    /\ factories = ("opnsense" :> "opnsense.New")
    /\ registryCall = NoRegistryCall

\* No update event was filtered yet.
NoEvent == [writer |-> "none"]

\* No steady state was recorded yet.
NoSteady == [set |-> FALSE]

\* No pool of workers runs.
NoWorkers == <<>>

\* The watch, the steady-state observer and the worker pool are not at work.
OthersIdle ==
    /\ event = NoEvent
    /\ steady = NoSteady
    /\ workers = NoWorkers

\* No direct caller of LookupIP or of the Provider is at work.
NoDirectCaller ==
    /\ OthersIdle
    /\ dmEntries = TestDomainMap
    /\ lookupHostname = <<"">>
    /\ lookupResult = NoLookup
    /\ history = <<>>
    /\ LoadedRegistry

\* A resource as its user created it, with at most one hostname (longer lists
\* come by edits); the backend holds one record entered by hand.
Init ==
    /\ \E hs \in {l \in HostLists : Len(l) <= 1} :
         store = [exists |-> TRUE, deleting |-> FALSE, finalizers |-> {},
                  hostnames |-> hs, annotation |-> NoAnnotation]
    /\ backend = {ManualRow}
    /\ upsert \in BOOLEAN
    /\ pc = "idle"
    /\ route = NoRoute
    /\ stale = FALSE
    /\ managedHostnames = NilSlice
    /\ currentHostnames = NilSlice
    /\ idx = 0
    /\ attempts = 0
    /\ passKind = "none"
    /\ calls = <<>>
    /\ wrote = "none"
    /\ result = "none"
    /\ first = NoRoute
    /\ lastErr = "none"
    /\ edits = 0
    /\ NoDirectCaller

(* ------------------------ other actors on the store -------------------- *)

\* The record of the last pass lasts until the next step after its return.
ForgetPass ==
    IF pc = "idle"
    THEN /\ passKind' = "none"
         /\ calls' = <<>>
         /\ wrote' = "none"
         /\ result' = "none"
         /\ first' = NoRoute
         /\ lastErr' = "none"
         /\ attempts' = 0
    ELSE UNCHANGED passRecord

\* A write by another actor gives the resource a new resourceVersion: the
\* copy a retry loop holds is stale, and no Update can store it any more.
\* A pass meets the writes of others only in its reads and writes of the
\* resource, so they are placed between passes, before a re-fetch, and between
\* a re-fetch and its Update.
Invalidate ==
    /\ pc \in {"idle", "addfin_get", "rmfin_get", "ann_get"} \cup UpdatePcs
    /\ stale' = (pc \in UpdatePcs)
    /\ route' = IF pc \in UpdatePcs THEN NoRoute ELSE route
    /\ ForgetPass
    /\ UNCHANGED <<backend, upsert, pc, managedHostnames, currentHostnames, idx,
                   directVars>>

OtherWrite(new) ==
    /\ edits < MaxEdits
    /\ edits' = edits + 1
    /\ store' = Settle(new)
    /\ Invalidate

\* The hostname list is edited while the resource is not being deleted.
UserSetHostnames ==
    /\ store.exists
    /\ ~store.deleting
    /\ \E hs \in HostLists :
         /\ hs # store.hostnames
         /\ OtherWrite([store EXCEPT !.hostnames = hs])

UserDelete ==
    /\ store.exists
    /\ ~store.deleting
    /\ OtherWrite([store EXCEPT !.deleting = TRUE])

OtherAddFinalizer ==
    /\ store.exists
    /\ ~store.deleting
    /\ otherFinalizer \notin store.finalizers
    /\ OtherWrite(AddFinalizer(store, otherFinalizer))

OtherRemoveFinalizer ==
    /\ store.exists
    /\ otherFinalizer \in store.finalizers
    /\ OtherWrite(RemoveFinalizer(store, otherFinalizer))

\* Annotation values that are not the JSON of a list of strings: a text that
\* is no JSON, and the array [1].
ForeignAnnotations ==
    {[present |-> TRUE, kind |-> "invalid", items |-> <<>>],
     [present |-> TRUE, kind |-> "array", items |-> <<JSONNumber>>]}

\* Another actor sets the managed-hostnames annotation.
OtherSetAnnotation ==
    /\ store.exists
    /\ ~store.deleting
    /\ \E a \in ForeignAnnotations :
         /\ a # store.annotation
         /\ OtherWrite([store EXCEPT !.annotation = a])

\* A write that changes nothing the reconciler reads (a status update); it
\* shows only to an Update that is under way.
OtherStatusWrite ==
    /\ store.exists
    /\ pc \in UpdatePcs
    /\ ~stale
    /\ Invalidate
    /\ UNCHANGED <<store, edits,
                   directVars>>

(* ---------------------------- Reconcile -------------------------------- *)

\* Variant of BuildRecord: the record carries the hostname as its value.
BuildRecordValueIsHostname(hostname, ip) ==
    [Hostname |-> hostname, Type |-> "A", Value |-> hostname,
     Meta |-> ("description" :> ManagedDescription)]

\* The dns.Record the pass builds for a hostname.
BuildRecord(hostname, ip) ==
    [Hostname |-> hostname, Type |-> "A", Value |-> ip,
     Meta |-> ("description" :> ManagedDescription)]

\* A Provider call as the pass made it, with its error; found is the answer
\* of an Exists call.
Call(op, host, rtype, value, failed) ==
    [op |-> op, host |-> host, rtype |-> rtype, value |-> value, err |-> failed,
     found |-> FALSE]

CallExists(host, rtype, answer) ==
    [Call("Exists", host, rtype, "", answer.err) EXCEPT !.found = answer.found]

\* Variant of NextRemoved: every old hostname is deleted, declared or not.
NextRemovedAll(managed, current, i) == i

\* First index from i on of an old hostname the current list lacks (the next
\* Delete of the removed-hostnames loop), Len + 1 when there is none.
RECURSIVE NextRemoved(_, _, _)
NextRemoved(managed, current, i) ==
    IF i > Len(managed) THEN i
    ELSE IF ~Contains(current, managed[i]) THEN i
    ELSE NextRemoved(managed, current, i + 1)

\* Variant of NextResolved: a hostname the domain map does not resolve is not
\* skipped.
NextResolvedNoSkip(hostnames, j) == j

\* First index from j on of a hostname the domain map resolves (the others
\* the loop skips), Len + 1 when there is none.
RECURSIVE NextResolved(_, _)
NextResolved(hostnames, j) ==
    IF j > Len(hostnames) THEN j
    ELSE IF LookupIP(TestDomainMap, Labels(hostnames[j])).ok THEN j
    ELSE NextResolved(hostnames, j + 1)

\* Variant of AfterLoops: the annotation is written by every pass.
AfterLoopsAlwaysWrites(managed, current) ==
    [pc |-> "ann_get", idx |-> 0, done |-> FALSE]

\* After the loops: the annotation is written when the two slices differ.
AfterLoops(managed, current) ==
    IF ~DeepEqual(managed, current) THEN [pc |-> "ann_get", idx |-> 0, done |-> FALSE]
    ELSE [pc |-> "idle", idx |-> 0, done |-> TRUE]

\* Variant of AfterCurrent: removed hostnames are (also) deleted after the
\* create/upsert loop.
AfterCurrentThenRemoved(managed, current, hostnames, j) ==
    LET k == NextResolved(hostnames, j)
        r == NextRemoved(managed.elems, current.elems, 1)
    IN  IF k <= Len(hostnames) THEN [pc |-> "cur", idx |-> k, done |-> FALSE]
        ELSE IF r <= Len(managed.elems) THEN [pc |-> "rm", idx |-> r, done |-> FALSE]
        ELSE AfterLoops(managed, current)

\* Where the pass blocks next once the create/upsert loop stands at index j.
AfterCurrent(managed, current, hostnames, j) ==
    LET k == NextResolved(hostnames, j)
    IN  IF k <= Len(hostnames) THEN [pc |-> "cur", idx |-> k, done |-> FALSE]
        ELSE AfterLoops(managed, current)

\* Where the pass blocks next once the removed-hostnames loop stands at index i.
AfterRemoved(managed, current, hostnames, i) ==
    LET k == NextRemoved(managed.elems, current.elems, i)
    IN  IF k <= Len(managed.elems) THEN [pc |-> "rm", idx |-> k, done |-> FALSE]
        ELSE AfterCurrent(managed, current, hostnames, 1)

\* The pass returns: its locals are dropped.
Return(res) ==
    /\ pc' = "idle"
    /\ result' = res
    /\ route' = NoRoute
    /\ stale' = FALSE
    /\ managedHostnames' = NilSlice
    /\ currentHostnames' = NilSlice
    /\ idx' = 0

\* The pass goes on to its next blocking call, or returns success.
Goto(pos) ==
    IF pos.done THEN Return("ok")
    ELSE /\ pc' = pos.pc
         /\ idx' = pos.idx
         /\ UNCHANGED <<result, route, stale, managedHostnames, currentHostnames>>

\* The scheduler hands the key to Reconcile.
StartPass ==
    /\ pc = "idle"
    /\ pc' = "get"
    /\ passKind' = "none"
    /\ calls' = <<>>
    /\ wrote' = "none"
    /\ result' = "running"
    /\ first' = NoRoute
    /\ lastErr' = "none"
    /\ attempts' = 0
    /\ UNCHANGED <<store, backend, upsert, route, stale, managedHostnames,
                   currentHostnames, idx, edits,
                   directVars>>

\* The initial read failed with an error other than NotFound.
GetFails ==
    /\ pc = "get"
    /\ passKind' = "geterr"
    /\ first' = NoRoute
    /\ Return("err")
    /\ UNCHANGED <<store, backend, upsert, calls, wrote, lastErr, attempts, edits,
                   directVars>>

\* Variant of GetNotFound: NotFound is returned like any other read error.
GetNotFoundIsError ==
    /\ pc = "get"
    /\ ~store.exists
    /\ passKind' = "notfound"
    /\ first' = NoRoute
    /\ Return("err")
    /\ UNCHANGED <<store, backend, upsert, calls, wrote, lastErr, attempts, edits,
                   directVars>>

\* The initial read reports NotFound: client.IgnoreNotFound.
GetNotFound ==
    /\ pc = "get"
    /\ ~store.exists
    /\ passKind' = "notfound"
    /\ first' = NoRoute
    /\ Return("ok")
    /\ UNCHANGED <<store, backend, upsert, calls, wrote, lastErr, attempts, edits,
                   directVars>>

\* Variant of GetDeletingNoFinalizer: the cleanup runs whether the finalizer
\* is there or not.
GetDeletingNoFinalizerCleansUp ==
    /\ pc = "get"
    /\ store.exists
    /\ store.deleting
    /\ ~ContainsFinalizer(store, finalizerName)
    /\ passKind' = "deleting_nofin"
    /\ first' = Read(store)
    /\ route' = store
    /\ pc' = IF Len(store.hostnames) > 0 THEN "del" ELSE "rmfin_get"
    /\ idx' = IF Len(store.hostnames) > 0 THEN 1 ELSE 0
    /\ UNCHANGED <<store, backend, upsert, stale, managedHostnames, currentHostnames,
                   attempts, calls, wrote, result, lastErr, edits,
                   directVars>>

\* Deletion marker set, finalizer absent: nothing to do.
GetDeletingNoFinalizer ==
    /\ pc = "get"
    /\ store.exists
    /\ store.deleting
    /\ ~ContainsFinalizer(store, finalizerName)
    /\ passKind' = "deleting_nofin"
    /\ first' = Read(store)
    /\ Return("ok")
    /\ UNCHANGED <<store, backend, upsert, calls, wrote, lastErr, attempts, edits,
                   directVars>>

\* Variant of GetDeleting: the cleanup loop starts at the last hostname.
GetDeletingFromLast ==
    /\ pc = "get"
    /\ store.exists
    /\ store.deleting
    /\ ContainsFinalizer(store, finalizerName)
    /\ passKind' = "deleting"
    /\ first' = Read(store)
    /\ route' = store
    /\ pc' = IF Len(store.hostnames) > 0 THEN "del" ELSE "rmfin_get"
    /\ idx' = Len(store.hostnames)
    /\ UNCHANGED <<store, backend, upsert, stale, managedHostnames, currentHostnames,
                   attempts, calls, wrote, result, lastErr, edits,
                   directVars>>

\* Deletion marker set, finalizer present: on to the cleanup loop.
GetDeleting ==
    /\ pc = "get"
    /\ store.exists
    /\ store.deleting
    /\ ContainsFinalizer(store, finalizerName)
    /\ passKind' = "deleting"
    /\ first' = Read(store)
    /\ route' = store
    /\ pc' = IF Len(store.hostnames) > 0 THEN "del" ELSE "rmfin_get"
    /\ idx' = IF Len(store.hostnames) > 0 THEN 1 ELSE 0
    /\ UNCHANGED <<store, backend, upsert, stale, managedHostnames, currentHostnames,
                   attempts, calls, wrote, result, lastErr, edits,
                   directVars>>

\* No deletion marker, finalizer absent: on to the finalizer-add retry loop.
GetUnmanaged ==
    /\ pc = "get"
    /\ store.exists
    /\ ~store.deleting
    /\ ~ContainsFinalizer(store, finalizerName)
    /\ passKind' = "addfin"
    /\ first' = Read(store)
    /\ route' = store
    /\ pc' = "addfin_get"
    /\ UNCHANGED <<store, backend, upsert, stale, managedHostnames, currentHostnames,
                   idx, attempts, calls, wrote, result, lastErr, edits,
                   directVars>>

\* No deletion marker, finalizer present: read the annotation and the declared
\* hostnames, then on to the first Provider call.
GetActive ==
    /\ pc = "get"
    /\ store.exists
    /\ ~store.deleting
    /\ ContainsFinalizer(store, finalizerName)
    /\ passKind' = "active"
    /\ first' = Read(store)
    /\ LET managed == IF store.annotation.present THEN JSONUnmarshal(store.annotation)
                      ELSE NilSlice
           current == MakeSlice(store.hostnames)
           pos == AfterRemoved(managed, current, store.hostnames, 1)
       IN  IF pos.done THEN Return("ok")
           ELSE /\ pc' = pos.pc
                /\ idx' = pos.idx
                /\ route' = store
                /\ managedHostnames' = managed
                /\ currentHostnames' = current
                /\ UNCHANGED <<stale, result>>
    /\ UNCHANGED <<store, backend, upsert, calls, wrote, lastErr, attempts, edits,
                   directVars>>

\* Variant of CleanupDelete: a failed Delete is logged and the loop goes on.
CleanupDeleteIgnoresError ==
    /\ pc = "del"
    /\ \E out \in ProviderDelete(backend, route.hostnames[idx], "A") :
         /\ backend' = out.rows
         /\ calls' = Append(calls, Call("Delete", route.hostnames[idx], "A", "", out.err))
         /\ pc' = IF idx < Len(route.hostnames) THEN "del" ELSE "rmfin_get"
         /\ idx' = IF idx < Len(route.hostnames) THEN idx + 1 ELSE 0
         /\ UNCHANGED <<route, stale, managedHostnames, currentHostnames, result>>
    /\ UNCHANGED <<store, upsert, passKind, wrote, first, lastErr, attempts, edits,
                   directVars>>

\* Cleanup loop of the deletion branch: Delete(hostname, "A") in list order.
CleanupDelete ==
    /\ pc = "del"
    /\ \E out \in ProviderDelete(backend, route.hostnames[idx], "A") :
         /\ backend' = out.rows
         /\ calls' = Append(calls, Call("Delete", route.hostnames[idx], "A", "", out.err))
         /\ IF out.err THEN Return("err")
            ELSE /\ pc' = IF idx < Len(route.hostnames) THEN "del" ELSE "rmfin_get"
                 /\ idx' = IF idx < Len(route.hostnames) THEN idx + 1 ELSE 0
                 /\ UNCHANGED <<route, stale, managedHostnames, currentHostnames,
                                result>>
    /\ UNCHANGED <<store, upsert, passKind, wrote, first, lastErr, attempts, edits,
                   directVars>>

\* One attempt of retry.RetryOnConflict, first half: re-fetch the resource.
\* A Get that fails (NotFound or any other error) ends the loop.
RetryGet(getPc, updPc) ==
    /\ pc = getPc
    /\ \/ /\ store.exists
          /\ route' = store
          /\ stale' = FALSE
          /\ pc' = updPc
          /\ UNCHANGED <<managedHostnames, currentHostnames, idx, result, lastErr>>
       \/ /\ lastErr' = IF store.exists THEN "error" ELSE "notfound"
          /\ Return("err")
    /\ UNCHANGED <<store, backend, upsert, passKind, calls, wrote, first, attempts,
                   edits,
                   directVars>>

\* Variant of RetryUpdate: every error of Update is retried, not only Conflict.
RetryUpdateRetriesAll(updPc, getPc, obj, tag) ==
    /\ pc = updPc
    /\ \E fail \in BOOLEAN :
         LET out == IF fail THEN [res |-> "error", store |-> store]
                    ELSE StoreUpdate(store, obj, stale)
         IN  /\ store' = out.store
             /\ lastErr' = out.res
             /\ IF out.res = "ok"
                THEN wrote' = tag /\ attempts' = attempts /\ Return("ok")
                ELSE /\ attempts' = attempts + 1
                     /\ wrote' = wrote
                     /\ IF attempts + 1 < RetrySteps
                        THEN /\ pc' = getPc
                             /\ UNCHANGED <<result, route, stale, managedHostnames,
                                            currentHostnames, idx>>
                        ELSE Return("err")
    /\ UNCHANGED <<backend, upsert, passKind, calls, first, edits,
                   directVars>>

\* Second half: Update the mutated copy.  A Conflict is retried while the
\* budget of RetrySteps attempts lasts; any other error ends the loop.
RetryUpdate(updPc, getPc, obj, tag) ==
    /\ pc = updPc
    /\ \E fail \in BOOLEAN :
         LET out == IF fail THEN [res |-> "error", store |-> store]
                    ELSE StoreUpdate(store, obj, stale)
         IN  /\ store' = out.store
             /\ lastErr' = out.res
             /\ IF out.res = "ok"
                THEN wrote' = tag /\ attempts' = attempts /\ Return("ok")
                ELSE IF out.res = "conflict"
                THEN /\ attempts' = attempts + 1
                     /\ wrote' = wrote
                     /\ IF attempts + 1 < RetrySteps
                        THEN /\ pc' = getPc
                             /\ UNCHANGED <<result, route, stale, managedHostnames,
                                            currentHostnames, idx>>
                        ELSE Return("err")
                ELSE wrote' = wrote /\ attempts' = attempts /\ Return("err")
    /\ UNCHANGED <<backend, upsert, passKind, calls, first, edits,
                   directVars>>

\* Re-fetch of the finalizer-removing loop.
RemoveFinalizerGet == RetryGet("rmfin_get", "rmfin_upd")

\* Variant of RemoveFinalizerUpdate: the finalizer is removed from the copy of
\* the initial read, and that copy is stored.
RemoveFinalizerUpdateOnInitialRead ==
    RetryUpdate("rmfin_upd", "rmfin_get", RemoveFinalizer(first, finalizerName), "rmfin")

\* Mutate and Update of the finalizer-removing loop.
RemoveFinalizerUpdate ==
    RetryUpdate("rmfin_upd", "rmfin_get", RemoveFinalizer(route, finalizerName), "rmfin")

\* Re-fetch of the finalizer-adding loop.
AddFinalizerGet == RetryGet("addfin_get", "addfin_upd")

\* Variant of AddFinalizerUpdate: once the finalizer is stored the pass goes on
\* to the DNS work instead of returning.
AddFinalizerUpdateFallsThrough ==
    /\ pc = "addfin_upd"
    /\ LET out == StoreUpdate(store, AddFinalizer(route, finalizerName), stale)
           managed == IF route.annotation.present THEN JSONUnmarshal(route.annotation)
                      ELSE NilSlice
           current == MakeSlice(route.hostnames)
           pos == AfterRemoved(managed, current, route.hostnames, 1)
       IN  /\ store' = out.store
           /\ lastErr' = out.res
           /\ attempts' = attempts
           /\ IF out.res = "ok"
              THEN /\ wrote' = "addfin"
                   /\ IF pos.done THEN Return("ok")
                      ELSE /\ pc' = pos.pc
                           /\ idx' = pos.idx
                           /\ managedHostnames' = managed
                           /\ currentHostnames' = current
                           /\ UNCHANGED <<route, stale, result>>
              ELSE wrote' = wrote /\ Return("err")
    /\ UNCHANGED <<backend, upsert, passKind, calls, first, edits,
                   directVars>>

\* Mutate and Update of the finalizer-adding loop.
AddFinalizerUpdate ==
    RetryUpdate("addfin_upd", "addfin_get", AddFinalizer(route, finalizerName), "addfin")

\* Re-fetch of the annotation loop.
AnnotationGet == RetryGet("ann_get", "ann_upd")

\* Variant of AnnotationUpdate: the annotation is built from the hostname list
\* of the re-fetched copy.
AnnotationUpdateFromRefetch ==
    RetryUpdate("ann_upd", "ann_get",
                [route EXCEPT !.annotation = JSONMarshal(MakeSlice(route.hostnames))],
                "ann")

\* Variant of AnnotationUpdate: the annotation is set on the copy of the
\* initial read, and that copy is stored.
AnnotationUpdateOnInitialRead ==
    RetryUpdate("ann_upd", "ann_get",
                [first EXCEPT !.annotation = JSONMarshal(currentHostnames)], "ann")

\* Mutate and Update of the annotation loop: the list marshalled is the one the
\* pass built from its initial read.
AnnotationUpdate ==
    RetryUpdate("ann_upd", "ann_get",
                [route EXCEPT !.annotation = JSONMarshal(currentHostnames)], "ann")

\* Removed-hostnames loop of the active branch.
RemovedDelete ==
    /\ pc = "rm"
    /\ \E out \in ProviderDelete(backend, managedHostnames.elems[idx], "A") :
         /\ backend' = out.rows
         /\ calls' = Append(calls, Call("Delete", managedHostnames.elems[idx], "A", "",
                                         out.err))
         /\ IF out.err THEN Return("err")
            ELSE Goto(AfterRemoved(managedHostnames, currentHostnames,
                                   route.hostnames, idx + 1))
    /\ UNCHANGED <<store, upsert, passKind, wrote, first, lastErr, attempts, edits,
                   directVars>>

\* Create/upsert loop, upsert mode.
CurrentUpsert ==
    /\ pc = "cur"
    /\ upsert
    /\ LET hostname == route.hostnames[idx]
           record == BuildRecord(hostname, LookupIP(TestDomainMap, Labels(hostname)).ip)
       IN  \E out \in ProviderUpsert(backend, record) :
             /\ backend' = out.rows
             /\ calls' = Append(calls, Call("Upsert", hostname, record.Type,
                                             record.Value, out.err))
             /\ IF out.err THEN Return("err")
                ELSE Goto(AfterCurrent(managedHostnames, currentHostnames,
                                       route.hostnames, idx + 1))
    /\ UNCHANGED <<store, upsert, passKind, wrote, first, lastErr, attempts, edits,
                   directVars>>

\* Variant of CurrentExists: Exists is asked in upsert mode too.
CurrentExistsAnyMode ==
    /\ pc = "cur"
    /\ LET hostname == route.hostnames[idx]
       IN  \E e \in ProviderExists(backend, hostname, "A") :
             /\ calls' = Append(calls, CallExists(hostname, "A", e))
             /\ IF e.err THEN Return("err")
                ELSE IF e.found
                THEN Goto(AfterCurrent(managedHostnames, currentHostnames,
                                       route.hostnames, idx + 1))
                ELSE /\ pc' = "create"
                     /\ UNCHANGED <<idx, result, route, stale, managedHostnames,
                                    currentHostnames>>
    /\ UNCHANGED <<store, backend, upsert, passKind, wrote, first, lastErr, attempts,
                   edits,
                   directVars>>

\* Variant of CurrentExists: Create follows whatever Exists answered.
CurrentExistsThenCreate ==
    /\ pc = "cur"
    /\ ~upsert
    /\ LET hostname == route.hostnames[idx]
       IN  \E e \in ProviderExists(backend, hostname, "A") :
             /\ calls' = Append(calls, CallExists(hostname, "A", e))
             /\ IF e.err THEN Return("err")
                ELSE /\ pc' = "create"
                     /\ UNCHANGED <<idx, result, route, stale, managedHostnames,
                                    currentHostnames>>
    /\ UNCHANGED <<store, backend, upsert, passKind, wrote, first, lastErr, attempts,
                   edits,
                   directVars>>

\* Create/upsert loop, create-only mode: Exists first.
CurrentExists ==
    /\ pc = "cur"
    /\ ~upsert
    /\ LET hostname == route.hostnames[idx]
       IN  \E e \in ProviderExists(backend, hostname, "A") :
             /\ calls' = Append(calls, CallExists(hostname, "A", e))
             /\ IF e.err THEN Return("err")
                ELSE IF e.found
                THEN Goto(AfterCurrent(managedHostnames, currentHostnames,
                                       route.hostnames, idx + 1))
                ELSE /\ pc' = "create"
                     /\ UNCHANGED <<idx, result, route, stale, managedHostnames,
                                    currentHostnames>>
    /\ UNCHANGED <<store, backend, upsert, passKind, wrote, first, lastErr, attempts,
                   edits,
                   directVars>>

\* Variant of CurrentCreate: a failed Create is logged and the loop goes on.
CurrentCreateIgnoresError ==
    /\ pc = "create"
    /\ LET hostname == route.hostnames[idx]
           record == BuildRecord(hostname, LookupIP(TestDomainMap, Labels(hostname)).ip)
       IN  \E out \in ProviderCreate(backend, record) :
             /\ backend' = out.rows
             /\ calls' = Append(calls, Call("Create", hostname, record.Type,
                                             record.Value, out.err))
             /\ Goto(AfterCurrent(managedHostnames, currentHostnames,
                                  route.hostnames, idx + 1))
    /\ UNCHANGED <<store, upsert, passKind, wrote, first, lastErr, attempts, edits,
                   directVars>>

\* Create-only mode: Create after Exists said no.
CurrentCreate ==
    /\ pc = "create"
    /\ LET hostname == route.hostnames[idx]
           record == BuildRecord(hostname, LookupIP(TestDomainMap, Labels(hostname)).ip)
       IN  \E out \in ProviderCreate(backend, record) :
             /\ backend' = out.rows
             /\ calls' = Append(calls, Call("Create", hostname, record.Type,
                                             record.Value, out.err))
             /\ IF out.err THEN Return("err")
                ELSE Goto(AfterCurrent(managedHostnames, currentHostnames,
                                       route.hostnames, idx + 1))
    /\ UNCHANGED <<store, upsert, passKind, wrote, first, lastErr, attempts, edits,
                   directVars>>

Next ==
    \/ UserSetHostnames
    \/ UserDelete
    \/ OtherAddFinalizer
    \/ OtherRemoveFinalizer
    \/ OtherSetAnnotation
    \/ OtherStatusWrite
    \/ StartPass
    \/ GetFails
    \/ GetNotFound
    \/ GetDeletingNoFinalizer
    \/ GetDeleting
    \/ GetUnmanaged
    \/ GetActive
    \/ CleanupDelete
    \/ RemoveFinalizerGet
    \/ RemoveFinalizerUpdate
    \/ AddFinalizerGet
    \/ AddFinalizerUpdate
    \/ AnnotationGet
    \/ AnnotationUpdate
    \/ RemovedDelete
    \/ CurrentUpsert
    \/ CurrentExists
    \/ CurrentCreate

Spec == Init /\ [][Next]_vars

TypeOK ==
    /\ pc \in {"idle", "get", "del", "rmfin_get", "rmfin_upd", "addfin_get",
               "addfin_upd", "rm", "cur", "create", "ann_get", "ann_upd"}
    /\ result \in {"none", "running", "ok", "err"}
    /\ (pc = "idle") = (result # "running")
    /\ attempts \in 0..RetrySteps
    /\ edits \in 0..MaxEdits
    /\ Cardinality(backend) <= MaxUUID

(* ------------------------------ properties ----------------------------- *)

\* The state right after a pass returned shows the whole pass: the branch it
\* took (passKind), its initial read (first), its Provider calls in order
\* (calls), the resource write it got accepted (wrote) and its outcome (result).

IsPrefix(s, t) == Len(s) <= Len(t) /\ \A i \in 1..Len(s) : s[i] = t[i]

CallHosts(cs) == [i \in 1..Len(cs) |-> cs[i].host]

IsUpsert(c) == c.op = "Upsert"

Resolves(h) == LookupIP(TestDomainMap, Labels(h)).ok

ToSet(seq) == {seq[i] : i \in 1..Len(seq)}

\* The cleanup calls of a deletion pass over the list hs, all successful.
CleanupCalls(hs) == [i \in 1..Len(hs) |-> Call("Delete", hs[i], "A", "", FALSE)]

\* The resource s with the mutation of the loop tag applied to it.
Mutated(tag, s, current) ==
    IF tag = "addfin" THEN AddFinalizer(s, finalizerName)
    ELSE IF tag = "rmfin" THEN Settle(RemoveFinalizer(s, finalizerName))
    ELSE [s EXCEPT !.annotation = JSONMarshal(current)]

\* C1: a pass whose initial read finds no deletion marker and no finalizer
\* makes no Provider call; it returns success exactly when its finalizer-adding
\* write was accepted, and then the stored resource holds the finalizer.
\* Provider calls are made only by passes whose initial read found the
\* finalizer.
C1_AddFinalizerPassMakesNoProviderCall ==
    /\ passKind = "addfin" =>
         /\ ~first.deleting
         /\ finalizerName \notin first.finalizers
         /\ calls = <<>>
         /\ wrote \in {"none", "addfin"}
         /\ (result = "ok") = (wrote = "addfin")
         /\ wrote = "addfin" => store.exists /\ finalizerName \in store.finalizers
    /\ calls # <<>> =>
         /\ passKind \in {"active", "deleting"}
         /\ finalizerName \in first.finalizers

\* C1 witness: such a pass returned success with the finalizer stored, for a
\* resource that declares a hostname the domain map resolves.
C1_Witness ==
    /\ passKind = "addfin"
    /\ result = "ok"
    /\ wrote = "addfin"
    /\ \E i \in 1..Len(first.hostnames) : Resolves(first.hostnames[i])
    /\ calls = <<>>

\* C2: whenever the finalizer leaves the stored resource (the resource going
\* away included), the step is the finalizer-removing write of a pass whose
\* initial read found the deletion marker, and the calls of that pass are
\* one successful Delete for every hostname of the list, in order.
C2_FinalizerRemovedOnlyAfterCleanup ==
    [][(finalizerName \in store.finalizers /\ finalizerName \notin store'.finalizers)
          => /\ passKind' = "deleting"
             /\ first'.deleting
             /\ wrote = "none"
             /\ wrote' = "rmfin"
             /\ calls' = CleanupCalls(first'.hostnames)
             /\ calls' = calls]_vars

\* C2 witness: the finalizer was removed after two cleanup Deletes and the
\* store completed the deletion.
C2_Witness ==
    /\ passKind = "deleting"
    /\ wrote = "rmfin"
    /\ Len(calls) = 2
    /\ ~store.exists

\* C3: in a deletion pass the calls are Delete(hostname, "A") for the declared
\* hostnames in declared order; a failed Delete is the last call of the pass,
\* the pass has returned an error, and the finalizer is still stored.
C3_CleanupStopsAtFirstFailure ==
    passKind = "deleting" =>
        /\ IsPrefix(CallHosts(calls), first.hostnames)
        /\ \A i \in 1..Len(calls) :
             /\ calls[i].op = "Delete"
             /\ calls[i].rtype = "A"
             /\ calls[i].err =>
                  /\ i = Len(calls)
                  /\ pc = "idle"
                  /\ result = "err"
                  /\ wrote = "none"
                  /\ store.exists
                  /\ finalizerName \in store.finalizers

\* C3 witness: the first Delete of a two-hostname list failed.
C3_Witness ==
    /\ passKind = "deleting"
    /\ Len(first.hostnames) = 2
    /\ Len(calls) = 1
    /\ calls[1].err
    /\ result = "err"

\* C4: once the reconciler has removed the finalizer, the backend holds no
\* record the reconciler created or upserted for a hostname of the managed set
\* that was persisted when deletion was requested, whether or not the hostname
\* was still declared.
C4_NoOrphanAfterFinalizerRemoval ==
    wrote = "rmfin" =>
        \A h \in ToSet(JSONUnmarshal(first.annotation).elems) :
            \A r \in Matching(backend, h, "A") : r.description # ManagedDescription

\* C5: in an active pass no Delete comes after an Exists, Create or Upsert.
C5_RemovedDeletesComeFirst ==
    passKind = "active" =>
        \A i, j \in 1..Len(calls) :
            (i < j /\ calls[j].op = "Delete") => calls[i].op = "Delete"

\* C5 witness: an active pass deleted a removed hostname and then went on to a
\* current one.
C5_Witness ==
    /\ passKind = "active"
    /\ Len(calls) >= 2
    /\ calls[1].op = "Delete"
    /\ calls[Len(calls)].op \in {"Exists", "Create", "Upsert"}

\* C6: in an active pass a failed Provider call is the last call of the pass;
\* the pass has returned an error and written nothing, and the stored
\* annotation is the one the pass read.
C6_ProviderFailureAbortsActivePass ==
    passKind = "active" =>
        \A i \in 1..Len(calls) :
            calls[i].err =>
                /\ i = Len(calls)
                /\ pc = "idle"
                /\ result = "err"
                /\ wrote = "none"
                /\ store.exists
                /\ store.annotation = first.annotation

\* C6 witness: a call failed after an earlier one succeeded, in a pass that
\* had an annotation to write.
C6_Witness ==
    /\ passKind = "active"
    /\ result = "err"
    /\ Len(calls) >= 2
    /\ calls[Len(calls)].err
    /\ first.annotation # JSONMarshal(MakeSlice(first.hostnames))

\* C7 as stated: after an active pass that returned success, the stored
\* managed set equals, as a set, the hostname list stored at that moment.
C7_ManagedSetEqualsStoredList ==
    (passKind = "active" /\ result = "ok" /\ store.exists) =>
        ToSet(store.annotation.items) = ToSet(store.hostnames)

\* C7 amended: after an active pass that returned success, the stored
\* annotation is the JSON array of the hostname list the pass read in its
\* initial read; it matches the stored list when that list was not changed
\* since.
C7_ManagedSetEqualsListRead ==
    (passKind = "active" /\ result = "ok" /\ store.exists) =>
        /\ store.annotation = JSONMarshal(MakeSlice(first.hostnames))
        /\ store.hostnames = first.hostnames =>
             ToSet(store.annotation.items) = ToSet(store.hostnames)

\* C7 witness: the annotation was written after another actor changed the
\* hostname list the pass had read.
C7_Witness ==
    /\ passKind = "active"
    /\ result = "ok"
    /\ wrote = "ann"
    /\ store.exists
    /\ store.hostnames # first.hostnames

\* C8: when a write of one of the three loops is accepted (after fewer
\* Conflicts than the budget), the pass returns success and the stored resource
\* is the one the other actors left with exactly the loop's mutation applied.
C8_AcceptedWriteMergesOnLatest ==
    [][(wrote' # wrote /\ wrote' # "none")
          => /\ pc \in UpdatePcs
             /\ attempts' = attempts
             /\ attempts < RetrySteps
             /\ pc' = "idle"
             /\ result' = "ok"
             /\ store' = Mutated(wrote', store, currentHostnames)]_vars

\* C8 witness: a write was accepted on the last attempt of the budget, after
\* another actor changed the hostname list.
C8_Witness ==
    /\ wrote # "none"
    /\ result = "ok"
    /\ attempts = RetrySteps - 1
    /\ store.exists
    /\ store.hostnames # first.hostnames

\* C9: a retry loop meets at most RetrySteps Conflicts; it goes round again
\* only after a Conflict; with the budget used up the pass has returned an
\* error; after any other error of Get or Update the pass has returned an error
\* at once.
C9_RetryLoopBounded ==
    /\ attempts <= RetrySteps
    /\ pc # "idle" =>
         /\ attempts < RetrySteps
         /\ lastErr \in {"none", "conflict"}
         /\ (attempts > 0) = (lastErr = "conflict")
    /\ attempts = RetrySteps =>
         /\ pc = "idle"
         /\ result = "err"
         /\ wrote = "none"
         /\ lastErr = "conflict"
    /\ lastErr \in {"notfound", "invalid", "error"} =>
         /\ pc = "idle"
         /\ result = "err"
         /\ wrote = "none"
    /\ (pc = "idle" /\ lastErr = "conflict") => attempts = RetrySteps

\* C9 witness: every attempt of the budget ended in Conflict.
C9_Witness ==
    /\ attempts = RetrySteps
    /\ result = "err"
    /\ lastErr = "conflict"

\* C10: in upsert mode an active pass calls only Delete and Upsert; its Upsert
\* calls follow the entries of the declared list that the domain map resolves,
\* one call for each entry, and cover them all once the loop is through.
C10_UpsertModeCallsOnlyUpsert ==
    (upsert /\ passKind = "active") =>
        LET ups == CallHosts(SelectSeq(calls, IsUpsert))
            resolved == SelectSeq(first.hostnames, Resolves)
        IN  /\ \A i \in 1..Len(calls) : calls[i].op \in {"Delete", "Upsert"}
            /\ IsPrefix(ups, resolved)
            /\ (result = "ok" \/ pc \in {"ann_get", "ann_upd"}) => ups = resolved

\* C10 witness: such a pass returned success for a list with a hostname that
\* resolves and one that does not.
C10_Witness ==
    /\ upsert
    /\ passKind = "active"
    /\ result = "ok"
    /\ \E i \in 1..Len(calls) : calls[i].op = "Upsert"
    /\ \E i \in 1..Len(first.hostnames) : ~Resolves(first.hostnames[i])

IsDelete(c) == c.op = "Delete"

IsExists(c) == c.op = "Exists"

\* A Provider call of the create/upsert loop.
IsCurrentCall(c) == c.op \in {"Exists", "Create", "Upsert"}

\* The loops of an active pass are through.
LoopsDone == result = "ok" \/ pc \in {"ann_get", "ann_upd"}

\* C11: with upsert mode off an active pass calls only Delete, Exists and
\* Create; its Exists calls follow the declared entries that resolve, one for
\* each; a Create comes only right after an Exists of the same hostname that
\* answered false, and after such an answer comes exactly that Create; after
\* an answer of true the next call, if any, is the Exists of the next entry.
C11_CreateOnlyAfterExistsFalse ==
    (~upsert /\ passKind = "active") =>
        LET asked == CallHosts(SelectSeq(calls, IsExists))
            resolved == SelectSeq(first.hostnames, Resolves)
        IN  /\ \A i \in 1..Len(calls) : calls[i].op \in {"Delete", "Exists", "Create"}
            /\ IsPrefix(asked, resolved)
            /\ LoopsDone => asked = resolved
            /\ \A i \in 1..Len(calls) :
                 /\ calls[i].op = "Create" =>
                      /\ i > 1
                      /\ calls[i - 1].op = "Exists"
                      /\ calls[i - 1].host = calls[i].host
                      /\ ~calls[i - 1].err
                      /\ ~calls[i - 1].found
                 /\ (calls[i].op = "Exists" /\ ~calls[i].err /\ ~calls[i].found) =>
                      IF i = Len(calls) THEN pc = "create"
                      ELSE /\ calls[i + 1].op = "Create"
                           /\ calls[i + 1].host = calls[i].host
                 /\ (calls[i].op = "Exists" /\ calls[i].found /\ i < Len(calls)) =>
                      calls[i + 1].op = "Exists"

\* C11 witness: a pass returned success after Exists answered true for one
\* hostname (whose record holds another target) and false for the next, which
\* it then created.
C11_Witness ==
    /\ ~upsert
    /\ passKind = "active"
    /\ result = "ok"
    /\ Len(calls) = 3
    /\ calls[1].op = "Exists" /\ calls[1].found
    /\ calls[2].op = "Exists" /\ ~calls[2].found
    /\ calls[3].op = "Create"
    /\ \E r \in Matching(backend, calls[1].host, "A") :
         r.server # LookupIP(TestDomainMap, Labels(calls[1].host)).ip

\* C12: an active pass makes no Provider call for a declared hostname the
\* domain map does not resolve, and that hostname is no error: a pass that
\* returns an error had a Provider call or a resource read or write fail, and
\* when the loops are through every declared hostname that resolves got its
\* call.
C12_UnresolvedHostnameSkipped ==
    passKind = "active" =>
        /\ \A i \in 1..Len(calls) :
             Contains(first.hostnames, calls[i].host) => Resolves(calls[i].host)
        /\ result = "err" =>
             \/ calls # <<>> /\ calls[Len(calls)].err
             \/ lastErr \in {"conflict", "notfound", "invalid", "error"}
        /\ LoopsDone =>
             \A j \in 1..Len(first.hostnames) :
                 Resolves(first.hostnames[j]) =>
                     \E i \in 1..Len(calls) :
                         IsCurrentCall(calls[i]) /\ calls[i].host = first.hostnames[j]

\* C12 witness: a pass returned success for a list whose first hostname does
\* not resolve and whose second one does and got its call.
C12_Witness ==
    /\ passKind = "active"
    /\ result = "ok"
    /\ Len(first.hostnames) = 2
    /\ ~Resolves(first.hostnames[1])
    /\ Resolves(first.hostnames[2])
    /\ \E i \in 1..Len(calls) : calls[i].host = first.hostnames[2]

\* A hostname the initial read does not declare.
NotDeclared(h) == ~Contains(first.hostnames, h)

\* C13: in an active pass the hostnames Delete is called for are the entries
\* of the managed set read that the declared list lacks, in the order of the
\* managed set, all of them once the pass goes on to the declared hostnames.
C13_RemovedFollowsPreviousOrder ==
    passKind = "active" =>
        LET deleted == CallHosts(SelectSeq(calls, IsDelete))
            previous == JSONUnmarshal(first.annotation).elems
            removed == SelectSeq(previous, NotDeclared)
        IN  /\ IsPrefix(deleted, removed)
            /\ \A i \in 1..Len(deleted) : ~Contains(first.hostnames, deleted[i])
            /\ (LoopsDone \/ pc \in {"cur", "create"}
                  \/ \E i \in 1..Len(calls) : IsCurrentCall(calls[i]))
                 => deleted = removed

\* C13 witness: two removed hostnames were deleted in the order of the managed
\* set, which is not their order by name, while a third hostname is declared.
C13_Witness ==
    /\ passKind = "active"
    /\ first.annotation.items = <<H2, H1>>
    /\ first.hostnames = <<H3>>
    /\ CallHosts(calls) = <<H2, H1>>
    /\ result = "ok"

(* ----------------------- LookupIP called directly ---------------------- *)

\* Longest hostname LookupIP is asked for, in labels.
MaxLabels == 4

LookupLabels == {"app", "other", "a", "com"}

\* "*.d" for the domain d.
Wildcard(d) == <<"*">> \o d

\* The keys a domain map may hold, each with its own target (the entries of
\* TestLookupIPWildcardWithBaseDomain, and two more).
MapTargets ==
    (Wildcard(<<"a", "com">>) :> "10.0.0.1")
      @@ (<<"app", "a", "com">> :> "10.0.0.2")
      @@ (<<"a", "com">> :> "10.0.0.3")
      @@ (Wildcard(<<"other", "a", "com">>) :> "10.0.0.4")
      @@ (<<"other", "a", "com">> :> "10.0.0.5")
      @@ (<<"com">> :> "10.0.0.6")

\* The domain maps: every subset of those entries.
DomainMaps == {[k \in keys |-> MapTargets[k]] : keys \in SUBSET (DOMAIN MapTargets)}

\* The hostnames asked for: up to MaxLabels labels, with or without one
\* trailing dot.
LookupHostnames ==
    LET plain == UNION {[1..n -> LookupLabels] : n \in 1..MaxLabels}
    IN  plain \cup {h \o <<"">> : h \in plain}

\* The state before a direct call of LookupIP; the reconciler is at rest on an
\* empty store.
LookupInit ==
    /\ OthersIdle
    /\ dmEntries \in DomainMaps
    /\ lookupHostname \in LookupHostnames
    /\ lookupResult = NoLookup
    /\ history = <<>>
    /\ LoadedRegistry
    /\ store = NoRoute
    /\ backend = {}
    /\ upsert = FALSE
    /\ pc = "idle"
    /\ route = NoRoute
    /\ stale = FALSE
    /\ managedHostnames = NilSlice
    /\ currentHostnames = NilSlice
    /\ idx = 0
    /\ attempts = 0
    /\ passKind = "none"
    /\ calls = <<>>
    /\ wrote = "none"
    /\ result = "none"
    /\ first = NoRoute
    /\ lastErr = "none"
    /\ edits = 0

\* dm.LookupIP(hostname)
CallLookupIP ==
    /\ ~lookupResult.called
    /\ LET r == LookupIP(dmEntries, lookupHostname)
       IN  lookupResult' = [ip |-> r.ip, ok |-> r.ok, called |-> TRUE]
    /\ UNCHANGED <<store, backend, upsert, pc, route, stale, managedHostnames,
                   currentHostnames, idx, attempts, passKind, calls, wrote, result,
                   first, lastErr, edits, dmEntries, lookupHostname, history,
                   factories, registryCall, event, steady, workers>>

LookupNext == CallLookupIP

LookupSpec == LookupInit /\ [][LookupNext]_vars

(* ------------------------- properties of LookupIP ---------------------- *)

\* The hostname asked for, without its trailing dot.
Asked ==
    IF lookupHostname[Len(lookupHostname)] = ""
    THEN SubSeq(lookupHostname, 1, Len(lookupHostname) - 1)
    ELSE lookupHostname

\* The label suffix of the asked hostname that the walk stands at in step i.
Suffix(i) == SubSeq(Asked, i, Len(Asked))

\* Step i of the walk finds an exact entry, or the wildcard entry of the parent.
ExactAt(i) == Suffix(i) \in DOMAIN dmEntries

WildcardAt(i) == i < Len(Asked) /\ Wildcard(Suffix(i + 1)) \in DOMAIN dmEntries

MatchAt(i) == ExactAt(i) \/ WildcardAt(i)

Steps == 1..Len(Asked)

Found(target) == [ip |-> target, ok |-> TRUE, called |-> TRUE]

NotFound == [ip |-> "", ok |-> FALSE, called |-> TRUE]

\* C14: when the map holds the wildcard entry "*.D", LookupIP of a hostname
\* x.D with one label x returns the target of the exact entry "x.D" when the
\* map holds one, and the target of the wildcard entry otherwise.
C14_ExactBeatsWildcard ==
    (/\ lookupResult.called
     /\ Len(lookupHostname) >= 2
     /\ Wildcard(Tail(lookupHostname)) \in DOMAIN dmEntries) =>
        IF lookupHostname \in DOMAIN dmEntries
        THEN lookupResult = Found(dmEntries[lookupHostname])
        ELSE lookupResult = Found(dmEntries[Wildcard(Tail(lookupHostname))])

\* C14 witness: the map holds "*.a.com" and "app.a.com", and "app.a.com" was
\* looked up.
C14_Witness ==
    /\ lookupResult.called
    /\ lookupHostname = <<"app", "a", "com">>
    /\ {Wildcard(<<"a", "com">>), <<"app", "a", "com">>} \subseteq DOMAIN dmEntries
    /\ lookupResult.ip = "10.0.0.2"

\* C15: a wildcard entry "*.D" gives its target to every hostname with D as a
\* strict label suffix when no step of the walk before it matches, at any
\* depth; and it never matches D itself: a hostname with no exact entry for
\* any suffix and no wildcard entry for any strict suffix is not found, also
\* when the map holds the wildcard of the hostname itself.
C15_WildcardMatchesStrictSubdomains ==
    lookupResult.called =>
        /\ \A i \in Steps :
             (WildcardAt(i) /\ ~ExactAt(i) /\ \A j \in 1..(i - 1) : ~MatchAt(j))
                => lookupResult = Found(dmEntries[Wildcard(Suffix(i + 1))])
        /\ (\A i \in Steps : ~MatchAt(i)) => lookupResult = NotFound

\* C15 witness: with only "*.a.com" in the map, a hostname two labels below
\* a.com was looked up and found.
C15_Witness ==
    /\ lookupResult.called
    /\ DOMAIN dmEntries = {Wildcard(<<"a", "com">>)}
    /\ lookupHostname = <<"app", "other", "a", "com">>
    /\ lookupResult.ok

\* C16: when the first entry the walk meets is the exact entry of a label
\* suffix D of the hostname, LookupIP returns the target of D, for D itself and
\* at any depth below it, with or without one trailing dot on the hostname; a
\* hostname no suffix of which has an exact or a wildcard entry is not found.
C16_WalkUpToParentEntry ==
    lookupResult.called =>
        /\ \A i \in Steps :
             (ExactAt(i) /\ \A j \in 1..(i - 1) : ~MatchAt(j))
                => lookupResult = Found(dmEntries[Suffix(i)])
        /\ (/\ \A i \in Steps : Suffix(i) \notin DOMAIN dmEntries
            /\ \A i \in Steps : Wildcard(Suffix(i)) \notin DOMAIN dmEntries)
                => lookupResult = NotFound

\* C16 witness: with only "a.com" in the map, a hostname two labels below it
\* and with a trailing dot was looked up and found.
C16_Witness ==
    /\ lookupResult.called
    /\ DOMAIN dmEntries = {<<"a", "com">>}
    /\ lookupHostname = <<"app", "other", "a", "com", "">>
    /\ lookupResult = Found("10.0.0.3")

\* C17: LookupIP returns the target of the entry matched at the earliest step
\* of the walk from the full hostname upward, the exact entry of the step
\* before the wildcard entry of its parent; with no matching step it reports
\* not-found.
C17_MostSpecificEntryWins ==
    lookupResult.called =>
        IF \E i \in Steps : MatchAt(i)
        THEN LET m == CHOOSE i \in Steps : MatchAt(i) /\ \A j \in Steps : MatchAt(j) => i <= j
             IN  lookupResult = Found(IF ExactAt(m) THEN dmEntries[Suffix(m)]
                                      ELSE dmEntries[Wildcard(Suffix(m + 1))])
        ELSE lookupResult = NotFound

\* C17 witness: with "*.a.com", "a.com" and "*.other.a.com" in the map,
\* "other.a.com" resolved through "*.a.com".
C17_Witness ==
    /\ lookupResult.called
    /\ DOMAIN dmEntries =
         {Wildcard(<<"a", "com">>), <<"a", "com">>, Wildcard(<<"other", "a", "com">>)}
    /\ lookupHostname = <<"other", "a", "com">>
    /\ lookupResult = Found("10.0.0.1")

\* C18 as stated: whenever some label suffix of the hostname has an exact
\* entry, LookupIP returns the target of an exact entry of a suffix, whatever
\* wildcard entries the map holds.
C18_ExactWinsAtAnyDepth ==
    (lookupResult.called /\ \E i \in Steps : ExactAt(i)) =>
        \E i \in Steps : ExactAt(i) /\ lookupResult = Found(dmEntries[Suffix(i)])

\* C18 amended: an exact entry wins over the wildcard entries matched at its
\* own step of the walk or later, and a wildcard entry matched at an earlier
\* step wins over it.
C18_ExactWinsFromItsStepOn ==
    lookupResult.called =>
        \A i \in Steps :
            ExactAt(i) =>
                IF \E j \in 1..(i - 1) : WildcardAt(j) \/ ExactAt(j)
                THEN lookupResult # Found(dmEntries[Suffix(i)])
                ELSE lookupResult = Found(dmEntries[Suffix(i)])

\* C18 witness: with "*.other.a.com" and "a.com" in the map, "app.other.a.com"
\* resolved through the wildcard although its suffix a.com has an exact entry.
C18_Witness ==
    /\ lookupResult.called
    /\ DOMAIN dmEntries = {Wildcard(<<"other", "a", "com">>), <<"a", "com">>}
    /\ lookupHostname = <<"app", "other", "a", "com">>
    /\ lookupResult = Found("10.0.0.4")

(* ----------------------- Provider called directly ---------------------- *)

\* The names and targets a direct client of the Provider uses.
ClientHosts == {H1, H2}

ClientTargets == {"10.0.8.100", "10.0.9.50"}

\* The latest call a client made, with its outcome.
Remember(past, call) == <<call>>

\* The state before a client calls the Provider: the backend is empty or holds
\* a record entered by hand; the reconciler is at rest on an empty store.
ProviderInit ==
    /\ OthersIdle
    /\ backend \in {{}, {ManualRow}}
    /\ history = <<>>
    /\ dmEntries = TestDomainMap
    /\ lookupHostname = <<"">>
    /\ lookupResult = NoLookup
    /\ LoadedRegistry
    /\ store = NoRoute
    /\ upsert = FALSE
    /\ pc = "idle"
    /\ route = NoRoute
    /\ stale = FALSE
    /\ managedHostnames = NilSlice
    /\ currentHostnames = NilSlice
    /\ idx = 0
    /\ attempts = 0
    /\ passKind = "none"
    /\ calls = <<>>
    /\ wrote = "none"
    /\ result = "none"
    /\ first = NoRoute
    /\ lastErr = "none"
    /\ edits = 0

\* What a direct call of the Provider leaves alone.
ClientUnchanged ==
    UNCHANGED <<store, upsert, pc, route, stale, managedHostnames, currentHostnames,
                idx, attempts, passKind, calls, wrote, result, first, lastErr, edits,
                dmEntries, lookupHostname, lookupResult, factories, registryCall,
                event, steady, workers>>

\* p.Exists(ctx, hostname, "A")
ClientExists ==
    /\ \E h \in ClientHosts :
         \E e \in ProviderExists(backend, h, "A") :
             history' = Remember(history, CallExists(h, "A", e))
    /\ UNCHANGED backend
    /\ ClientUnchanged

\* p.Create(ctx, record)
ClientCreate ==
    /\ \E h \in ClientHosts, v \in ClientTargets :
         \E out \in ProviderCreate(backend, BuildRecord(h, v)) :
             /\ backend' = out.rows
             /\ history' = Remember(history, Call("Create", h, "A", v, out.err))
    /\ ClientUnchanged

\* p.Update(ctx, record)
ClientUpdate ==
    /\ \E h \in ClientHosts, v \in ClientTargets :
         \E out \in ProviderUpdate(backend, BuildRecord(h, v)) :
             /\ backend' = out.rows
             /\ history' = Remember(history, Call("Update", h, "A", v, out.err))
    /\ ClientUnchanged

\* p.Delete(ctx, hostname, "A")
ClientDelete ==
    /\ \E h \in ClientHosts :
         \E out \in ProviderDelete(backend, h, "A") :
             /\ backend' = out.rows
             /\ history' = Remember(history, Call("Delete", h, "A", "", out.err))
    /\ ClientUnchanged

\* p.Upsert(ctx, record)
ClientUpsert ==
    /\ \E h \in ClientHosts, v \in ClientTargets :
         \E out \in ProviderUpsert(backend, BuildRecord(h, v)) :
             /\ backend' = out.rows
             /\ history' = Remember(history, Call("Upsert", h, "A", v, out.err))
    /\ ClientUnchanged

ProviderNext ==
    \/ ClientExists
    \/ ClientCreate
    \/ ClientUpdate
    \/ ClientDelete
    \/ ClientUpsert

ProviderSpec == ProviderInit /\ [][ProviderNext]_vars

(* ---------------------- properties of the Provider --------------------- *)

\* The call a client made in this step.
ThisCall == history'[Len(history')]

\* The rows for the name and kind of a call, in a set of rows.
RowsOf(rows, call) == Matching(rows, call.host, call.rtype)

\* C19: From any prior backend state, two successive successful Upsert calls
\* for the same name and kind with different targets leave exactly one record
\* for that name and kind, and it holds the target of the second call.
C19_TwoUpsertsLeaveOneRecord ==
    [][(/\ history # <<>>
        /\ history[1].op = "Upsert"
        /\ ~history[1].err
        /\ ThisCall.op = "Upsert"
        /\ ~ThisCall.err
        /\ ThisCall.host = history[1].host
        /\ ThisCall.rtype = history[1].rtype
        /\ ThisCall.value # history[1].value)
       => /\ Cardinality(RowsOf(backend', ThisCall)) = 1
          /\ \A r \in RowsOf(backend', ThisCall) : r.server = ThisCall.value]_vars

\* C20: A successful Exists answers whether the backend holds a matching
\* record at the time of the call and changes nothing. For a name and kind
\* with no record (Exists false), a successful Create leaves exactly one
\* matching record, holding its target (Exists true); a successful Update of
\* a single record leaves that single record, under the same uuid, holding
\* the updated target; a successful Delete of a single record leaves none
\* (Exists false again). Rows of other names are left as they were.
C20_ProviderLifecycle ==
    [][(history' # <<>> /\ ~ThisCall.err) =>
        LET before == RowsOf(backend, ThisCall)
            after == RowsOf(backend', ThisCall)
        IN  /\ backend' \ after = backend \ before
            /\ ThisCall.op = "Exists" =>
                 /\ ThisCall.found = (before # {})
                 /\ backend' = backend
            /\ (ThisCall.op = "Create" /\ before = {}) =>
                 /\ Cardinality(after) = 1
                 /\ \A r \in after : r.server = ThisCall.value
            /\ ThisCall.op = "Update" =>
                 /\ before # {}
                 /\ Cardinality(before) = 1 =>
                      /\ Cardinality(after) = 1
                      /\ \A r \in after : r.server = ThisCall.value
                      /\ {r.uuid : r \in after} = {r.uuid : r \in before}
            /\ ThisCall.op = "Delete" =>
                 /\ before # {}
                 /\ Cardinality(before) = 1 => after = {}]_vars

\* A Delete of the single record of a name succeeded: none is left, where the
\* backend holds a record of the other name still.
C20_Witness ==
    /\ history # <<>>
    /\ history[1].op = "Delete"
    /\ ~history[1].err
    /\ history[1].host = H1
    /\ Matching(backend, H1, "A") = {}
    /\ Matching(backend, H2, "A") # {}

\* C21: Update of a name and kind the backend holds no matching record for
\* returns an error and leaves the backend as it was: no record is created.
C21_UpdateOfMissingRecordFails ==
    [][(/\ history' # <<>>
        /\ ThisCall.op = "Update"
        /\ RowsOf(backend, ThisCall) = {})
       => /\ ThisCall.err
          /\ backend' = backend]_vars

\* An Update for a name was refused on a backend that holds a record of the
\* other name only.
C21_Witness ==
    /\ history # <<>>
    /\ history[1].op = "Update"
    /\ history[1].err
    /\ history[1].host = H2
    /\ Matching(backend, H2, "A") = {}
    /\ backend = {ManualRow}

\* C22: Delete of a name and kind the backend holds no matching record for
\* returns an error and leaves the backend as it was.
C22_DeleteOfMissingRecordFails ==
    [][(/\ history' # <<>>
        /\ ThisCall.op = "Delete"
        /\ RowsOf(backend, ThisCall) = {})
       => /\ ThisCall.err
          /\ backend' = backend]_vars

\* A Delete was refused on an empty backend.
C22_Witness ==
    /\ history # <<>>
    /\ history[1].op = "Delete"
    /\ history[1].err
    /\ history[1].host = H1
    /\ backend = {}

\* C23: Create of a record whose name and kind have a matching record in the
\* backend already returns an error and adds no second record for them.
C23_CreateOfExistingRecordFails ==
    [][(/\ history' # <<>>
        /\ ThisCall.op = "Create"
        /\ RowsOf(backend, ThisCall) # {})
       => /\ ThisCall.err
          /\ RowsOf(backend', ThisCall) = RowsOf(backend, ThisCall)]_vars

(* -------------------------- provider registry -------------------------- *)

\* The names provider packages register under.
ProviderNames == {"opnsense", "myprovider", "other"}

\* The constructors they register.
Factories == {"opnsense.New", "myprovider.New", "other.New"}

\* factories = make(map[string]Factory)
NoFactories == [n \in {} |-> ""]

\* The registry before any init() ran; the reconciler is at rest.
RegistryInit ==
    /\ OthersIdle
    /\ factories = NoFactories
    /\ registryCall = NoRegistryCall
    /\ dmEntries = TestDomainMap
    /\ lookupHostname = <<"">>
    /\ lookupResult = NoLookup
    /\ history = <<>>
    /\ store = NoRoute
    /\ backend = {}
    /\ upsert = FALSE
    /\ pc = "idle"
    /\ route = NoRoute
    /\ stale = FALSE
    /\ managedHostnames = NilSlice
    /\ currentHostnames = NilSlice
    /\ idx = 0
    /\ attempts = 0
    /\ passKind = "none"
    /\ calls = <<>>
    /\ wrote = "none"
    /\ result = "none"
    /\ first = NoRoute
    /\ lastErr = "none"
    /\ edits = 0

\* What a call of the registry leaves alone.
RegistryUnchanged ==
    UNCHANGED <<store, backend, upsert, pc, route, stale, managedHostnames,
                currentHostnames, idx, attempts, passKind, calls, wrote, result, first,
                lastErr, edits, dmEntries, lookupHostname, lookupResult, history,
                event, steady, workers>>

\* Variant of Register: a name that is present is registered again.
RegisterOverwrites ==
    /\ \E name \in ProviderNames, f \in Factories :
         /\ factories' = [n \in DOMAIN factories \cup {name} |->
                             IF n = name THEN f ELSE factories[n]]
         /\ registryCall' = [NoRegistryCall EXCEPT !.op = "Register", !.name = name,
                                                   !.factory = f]
    /\ RegistryUnchanged

\* Register(name, f): panic when the name is present (the deferred Unlock
\* releases mu, so a caller that recovers can go on); else factories[name] = f.
Register ==
    /\ \E name \in ProviderNames, f \in Factories :
         IF name \in DOMAIN factories
         THEN /\ factories' = factories
              /\ registryCall' = [NoRegistryCall EXCEPT !.op = "Register",
                                     !.name = name, !.factory = f, !.panicked = TRUE]
         ELSE /\ factories' = [n \in DOMAIN factories \cup {name} |->
                                  IF n = name THEN f ELSE factories[n]]
              /\ registryCall' = [NoRegistryCall EXCEPT !.op = "Register",
                                     !.name = name, !.factory = f]
    /\ RegistryUnchanged

\* NewProvider(name, log, settings): an error for a name that is absent, else
\* what the Factory returns (a Provider, or its own error for bad settings).
NewProvider ==
    /\ \E name \in ProviderNames :
         IF name \notin DOMAIN factories
         THEN registryCall' = [NoRegistryCall EXCEPT !.op = "NewProvider",
                                  !.name = name, !.err = TRUE]
         ELSE \E fails \in BOOLEAN :
                registryCall' = [NoRegistryCall EXCEPT !.op = "NewProvider",
                                    !.name = name, !.factory = factories[name],
                                    !.err = fails, !.constructed = factories[name]]
    /\ UNCHANGED factories
    /\ RegistryUnchanged

RegistryNext ==
    \/ Register
    \/ NewProvider

RegistrySpec == RegistryInit /\ [][RegistryNext]_vars

\* C24: Registering a name that is present panics and leaves the registry as
\* it was; registering a new name inserts that name with its Factory and
\* changes no other entry; an entry, once made, never changes (so each name
\* maps to the Factory of its first registration); NewProvider for a name that
\* is absent returns an error, calls no Factory and leaves the registry alone.
C24_RegistryKeepsFirstRegistration ==
    [][/\ \A n \in DOMAIN factories :
            n \in DOMAIN factories' /\ factories'[n] = factories[n]
       /\ registryCall'.op = "Register" =>
            IF registryCall'.name \in DOMAIN factories
            THEN registryCall'.panicked /\ factories' = factories
            ELSE /\ ~registryCall'.panicked
                 /\ DOMAIN factories' = DOMAIN factories \cup {registryCall'.name}
                 /\ factories'[registryCall'.name] = registryCall'.factory
       /\ registryCall'.op = "NewProvider" =>
            /\ factories' = factories
            /\ registryCall'.name \notin DOMAIN factories =>
                 registryCall'.err /\ registryCall'.constructed = ""
            /\ registryCall'.name \in DOMAIN factories =>
                 registryCall'.constructed = factories[registryCall'.name]]_vars

\* A second registration of opnsense, with another Factory, panicked and the
\* first one is in place, next to a registration of another name.
C24_Witness ==
    /\ registryCall.op = "Register"
    /\ registryCall.name = "opnsense"
    /\ registryCall.factory = "myprovider.New"
    /\ registryCall.panicked
    /\ DOMAIN factories = {"opnsense", "myprovider"}
    /\ factories["opnsense"] = "opnsense.New"

(* ------------------------------ convergence ---------------------------- *)

\* The steps of Reconcile.
ReconcileNext ==
    \/ StartPass
    \/ GetFails
    \/ GetNotFound
    \/ GetDeletingNoFinalizer
    \/ GetDeleting
    \/ GetUnmanaged
    \/ GetActive
    \/ CleanupDelete
    \/ RemoveFinalizerGet
    \/ RemoveFinalizerUpdate
    \/ AddFinalizerGet
    \/ AddFinalizerUpdate
    \/ AnnotationGet
    \/ AnnotationUpdate
    \/ RemovedDelete
    \/ CurrentUpsert
    \/ CurrentExists
    \/ CurrentCreate

\* The work queue hands the key to Reconcile again after a pass (after an
\* error it requeues the key), and a pass that runs takes its next step.
LiveSpec == Spec /\ WF_vars(ReconcileNext)

\* A Provider call was made in this step.
ProviderCalled == calls' # calls /\ calls' # <<>>

\* The step is a Provider call that failed for a reason other than the
\* backend's answer: Delete fails by itself when no record matches, Create when
\* the backend takes no further row.
TransportFailure ==
    /\ ProviderCalled
    /\ calls'[Len(calls')].err
    /\ LET c == calls'[Len(calls')]
       IN  ~ \/ c.op = "Delete" /\ Matching(backend, c.host, c.rtype) = {}
             \/ c.op \in {"Create", "Upsert"} /\ Matching(backend, c.host, c.rtype) = {}
                  /\ FreeUUIDs(backend) = {}

\* The step is a read or write of the resource that the API server failed.
StoreFailure == passKind' = "geterr" \/ lastErr' = "error"

\* The step is a write of another actor.
OtherActorStep == edits' # edits \/ (stale' /\ ~stale)

\* From some point on no other actor writes and no call fails in transit.
QuietFromSomePointOn ==
    <>[][~OtherActorStep /\ ~TransportFailure /\ ~StoreFailure]_vars

\* The managed records of the backend for a hostname.
ManagedRows(h) == {r \in Matching(backend, h, "A") : r.description = ManagedDescription}

\* The resource and the backend agree: a deleted resource is rid of the
\* finalizer; an active one has a record for each declared hostname the domain
\* map resolves and no managed record for a hostname it does not declare.
Converged ==
    IF ~store.exists THEN TRUE
    ELSE IF store.deleting THEN ~ContainsFinalizer(store, finalizerName)
    ELSE /\ ContainsFinalizer(store, finalizerName)
         /\ \A h \in Hosts :
              IF Contains(store.hostnames, h)
              THEN Resolves(h) => Matching(backend, h, "A") # {}
              ELSE ManagedRows(h) = {}

\* C25: If from some point on no other actor modifies the resource and no call
\* fails in transit, while passes keep being scheduled, then passes succeed
\* again and again with the resource and the backend in agreement.
C25_EventuallyConverges ==
    QuietFromSomePointOn => []<>(pc = "idle" /\ result = "ok" /\ Converged)

\* C26: A pass that reads a resource carrying the deletion marker but not the
\* finalizer returns success at once: it makes no Provider call, writes nothing
\* to the resource and leaves the backend as it was.
C26_DeletingWithoutFinalizerIsNoOp ==
    [][(/\ pc = "get"
        /\ pc' # "get"
        /\ passKind' # "geterr"
        /\ store.exists
        /\ store.deleting
        /\ ~ContainsFinalizer(store, finalizerName))
       => /\ pc' = "idle"
          /\ result' = "ok"
          /\ calls' = <<>>
          /\ wrote' = "none"
          /\ store' = store
          /\ backend' = backend]_vars

\* A pass returned from a resource that is being deleted, holds another
\* controller's finalizer only, and declares a hostname.
C26_Witness ==
    /\ passKind = "deleting_nofin"
    /\ result = "ok"
    /\ store.exists
    /\ store.deleting
    /\ store.finalizers = {otherFinalizer}
    /\ Len(store.hostnames) > 0

\* The managed set an active pass found persisted, as its initial read shows it.
PreviousSet == ToSet(JSONUnmarshal(first.annotation).elems)

\* C27: An active pass that succeeded wrote the managed-hostnames annotation
\* if and only if the declared hostnames differ, as a set, from the persisted
\* managed set.
C27_AnnotationWrittenIffSetsDiffer ==
    (pc = "idle" /\ passKind = "active" /\ result = "ok")
        => ((wrote = "ann") <=> (ToSet(first.hostnames) # PreviousSet))

\* The Delete calls a pass made for a hostname.
DeletesOf(h) == {i \in 1..Len(calls) : calls[i].op = "Delete" /\ calls[i].host = h}

\* C28: An active pass calls Delete at most once for a hostname, also for one
\* that occurs more than once in the persisted managed set.
C28_NoDuplicateRemovals ==
    passKind = "active" => \A h \in Hosts : Cardinality(DeletesOf(h)) <= 1

\* The annotation value is missing or json.Unmarshal returns an error for it.
Unparsable(a) ==
    \/ ~a.present
    \/ a.kind = "invalid"
    \/ a.kind = "array" /\ \E i \in 1..Len(a.items) : a.items[i] = JSONNumber

\* C29: An active pass that found the persisted managed set missing or
\* unparsable issues no Delete, fails only through a call for a declared
\* hostname or a read or write of the resource, and on success has persisted
\* the managed set.
C29_UnparsableStateIsEmptySet ==
    (passKind = "active" /\ Unparsable(first.annotation))
        => /\ \A i \in 1..Len(calls) : ~IsDelete(calls[i])
           /\ \A i \in 1..Len(calls) : Contains(first.hostnames, calls[i].host)
           /\ (pc = "idle" /\ result = "ok") => wrote = "ann"

\* C30: An Update of the reconciler that is based on a stale copy changes
\* nothing; one that changes the resource was made from the copy just fetched
\* and changes only the reconciler's own finalizer (the finalizer loops) or the
\* managed-hostnames annotation (the annotation loop): the hostname list, the
\* deletion marker, the finalizers of others and the field of the other loop
\* are stored as the other actors left them.
C30_NoBlindOverwrite ==
    [][(pc \in UpdatePcs /\ edits' = edits)
       => /\ stale => store' = store
          /\ store' # store =>
               /\ route = store
               /\ IF store'.exists
                  THEN /\ store'.hostnames = store.hostnames
                       /\ store'.deleting = store.deleting
                       /\ store'.finalizers \ {finalizerName}
                            = store.finalizers \ {finalizerName}
                       /\ pc = "ann_upd" => store'.finalizers = store.finalizers
                       /\ pc # "ann_upd" => store'.annotation = store.annotation
                  ELSE /\ pc = "rmfin_upd"
                       /\ store.deleting
                       /\ store.finalizers = {finalizerName}]_vars

\* The annotation was written after a Conflict, on a resource whose hostname
\* list another actor had changed since the pass read it: the new list is in
\* place next to the annotation.
C30_Witness ==
    /\ wrote = "ann"
    /\ result = "ok"
    /\ attempts > 0
    /\ store.exists
    /\ store.hostnames # first.hostnames
    /\ store.annotation = JSONMarshal(MakeSlice(first.hostnames))

\* C31: A successful Delete removes one record matching its name and kind and
\* nothing else; a successful Update rewrites one record matching its name and
\* kind, under its uuid and with the new target, and nothing else: every other
\* record of the backend is there afterwards with the target it had.
C31_MutationsAreLocal ==
    [][(history' # <<>> /\ ~ThisCall.err)
       => /\ ThisCall.op = "Delete" =>
               \E r \in RowsOf(backend, ThisCall) : backend' = backend \ {r}
          /\ ThisCall.op = "Update" =>
               \E r \in RowsOf(backend, ThisCall) :
                  \E n \in RowsOf(backend', ThisCall) :
                     /\ n.uuid = r.uuid
                     /\ n.server = ThisCall.value
                     /\ backend' \ {n} = backend \ {r}]_vars

\* A Delete of one name succeeded next to a record of the other name, which
\* is still there.
C31_Witness ==
    /\ history # <<>>
    /\ history[1].op = "Delete"
    /\ ~history[1].err
    /\ history[1].host = H2
    /\ Matching(backend, H2, "A") = {}
    /\ ManualRow \in backend

\* C38: A Create, Update or Delete that returns an error leaves the backend
\* as it was before the call.
C38_FailedMutationChangesNothing ==
    [][(/\ history' # <<>>
        /\ ThisCall.op \in {"Create", "Update", "Delete"}
        /\ ThisCall.err)
       => backend' = backend]_vars

\* C32: In the cleanup loop of the deletion branch, a Delete for a hostname
\* the backend holds no record of does not fail the pass: the pass goes on with
\* the next hostname or with the removal of the finalizer.
C32_MissingRecordInCleanupIsSuccess ==
    [][(/\ pc = "del"
        /\ calls' # calls
        /\ Matching(backend, route.hostnames[idx], "A") = {})
       => pc' \in {"del", "rmfin_get"}]_vars

\* C34: Every Create and Upsert of a pass carries a hostname the resource
\* declared at the pass's initial read, kind "A" and the address the domain map
\* resolves that hostname to; every Delete of a pass carries kind "A".
C34_RecordsAreBuiltFromLookup ==
    \A i \in 1..Len(calls) :
       LET c == calls[i]
       IN  /\ c.op \in {"Create", "Upsert"} =>
                /\ Contains(first.hostnames, c.host)
                /\ c.rtype = "A"
                /\ LookupIP(TestDomainMap, Labels(c.host)).ok
                /\ c.value = LookupIP(TestDomainMap, Labels(c.host)).ip
           /\ c.op = "Delete" => c.rtype = "A"

C34_Witness ==
    /\ Len(calls) >= 2
    /\ \E i \in 1..Len(calls) : calls[i].op = "Delete" /\ ~calls[i].err
    /\ \E i \in 1..Len(calls) :
          /\ calls[i].op \in {"Create", "Upsert"}
          /\ ~calls[i].err
          /\ calls[i].host = H2
          /\ calls[i].value = LookupIP(TestDomainMap, Labels(H2)).ip

\* C35: A pass whose initial read finds no resource under the key returns
\* success with no Provider call and no write; a pass whose initial read fails
\* in any other way returns an error, also with no Provider call and no write.
C35_InitialReadOutcomes ==
    [][(pc = "get" /\ pc' # "get")
       => /\ (~store.exists /\ passKind' # "geterr")
               => /\ pc' = "idle"
                  /\ result' = "ok"
                  /\ calls' = <<>>
                  /\ wrote' = "none"
                  /\ store' = store
                  /\ backend' = backend
          /\ passKind' = "geterr"
               => /\ pc' = "idle"
                  /\ result' = "err"
                  /\ calls' = <<>>
                  /\ wrote' = "none"
                  /\ store' = store
                  /\ backend' = backend]_vars

\* A pass returned success for a key whose resource is gone while the backend
\* still holds a record.
C35_Witness ==
    /\ pc = "idle"
    /\ passKind = "notfound"
    /\ result = "ok"
    /\ ~store.exists
    /\ backend # {}

\* C36: The Update of the finalizer-adding loop never carries a resource that
\* has the deletion marker, also when the marker was set after the pass's
\* initial read and before the loop's re-fetch.
C36_NoFinalizerAddWhileDeleting ==
    [][(pc = "addfin_upd" /\ pc' # "addfin_upd")
       => ~(route.exists /\ route.deleting)]_vars

(* ----------------------------- steady state ---------------------------- *)

\* The active pass that just returned success left the resource as it read
\* it, but for the annotation it wrote itself: nobody changed the hostnames or
\* the annotation, or deleted the resource, while the pass ran.
NothingChangedSincePass ==
    /\ store.exists
    /\ ~store.deleting
    /\ ContainsFinalizer(store, finalizerName)
    /\ store.hostnames = first.hostnames
    /\ store.annotation = IF wrote = "ann" THEN JSONMarshal(MakeSlice(first.hostnames))
                          ELSE first.annotation

\* An observer records the resource and the backend once an active pass has
\* returned success with nothing changed; from then on no other actor writes.
MarkSteady ==
    /\ ~steady.set
    /\ pc = "idle"
    /\ passKind = "active"
    /\ result = "ok"
    /\ NothingChangedSincePass
    /\ steady' = [set |-> TRUE, store |-> store, backend |-> backend, calls |-> calls]
    /\ UNCHANGED <<store, backend, upsert, pc, route, stale, managedHostnames,
                   currentHostnames, idx, attempts, passKind, calls, wrote, result,
                   first, lastErr, edits, dmEntries, lookupHostname, lookupResult,
                   history, factories, registryCall, event, workers>>

\* A step of Reconcile in the steady state: no read, write or Provider call
\* fails in transit.
SteadyStep(A) == steady.set /\ A /\ ~TransportFailure /\ ~StoreFailure

\* Any history of the reconciler and the other actors up to the recorded
\* steady state, then passes of the reconciler alone.
SteadyNext ==
    \/ ~steady.set /\ Next
    \/ MarkSteady
    \/ SteadyStep(StartPass)
    \/ SteadyStep(GetActive)
    \/ SteadyStep(CurrentUpsert)
    \/ SteadyStep(CurrentExists)

SteadySpec == Init /\ [][SteadyNext]_vars

\* C39: Once an active pass has succeeded and nothing changed since, every
\* further pass leaves the resource and the backend as they are, never reaches
\* a Delete, a Create or the annotation write, makes no Provider call but
\* Exists unless in upsert mode, where it makes Upsert calls only, and
\* returns success from the active branch.
C39_SteadyStateIdempotence ==
    [][steady.set
       => /\ store' = steady.store
          /\ backend' = steady.backend
          /\ pc' \in {"idle", "get", "cur"}
          /\ pc # "idle"
               => /\ wrote' = "none"
                  /\ \A i \in 1..Len(calls') :
                        /\ calls'[i].op # "Delete"
                        /\ calls'[i].op = IF upsert THEN "Upsert" ELSE "Exists"
                        /\ ~calls'[i].err
                  /\ pc' = "idle" => (result' = "ok" /\ passKind' = "active")]_vars

\* A second pass returned in the steady state that a pass with a Create had
\* left: it asked Exists and did nothing else.
C39_Witness ==
    /\ steady.set
    /\ pc = "idle"
    /\ passKind = "active"
    /\ result = "ok"
    /\ \E i \in 1..Len(steady.calls) : steady.calls[i].op = "Create"
    /\ calls # <<>>
    /\ \A i \in 1..Len(calls) : calls[i].op = "Exists"
    /\ wrote = "none"

(* --------------------------- the event filter -------------------------- *)

\* Variant of UpdateFunc: only a change of generation passes.
UpdateFuncGenerationOnly(old, new) == old.generation # new.generation

\* predicate.Funcs.UpdateFunc of SetupWithManager, on ObjectOld and ObjectNew.
UpdateFunc(old, new) ==
    \/ old.generation # new.generation
    \/ Cardinality(old.finalizers) # Cardinality(new.finalizers)

\* A resource as the watch delivers it: what the store holds, with its
\* metadata.generation and its status.
Watched(obj, generation, status) ==
    [exists |-> obj.exists, deleting |-> obj.deleting, finalizers |-> obj.finalizers,
     hostnames |-> obj.hostnames, annotation |-> obj.annotation,
     generation |-> generation, status |-> status]

\* The resource is created; predicate.Funcs has no CreateFunc, so the create
\* event passes.
EventInit ==
    /\ \E hs \in {l \in HostLists : Len(l) <= 1} :
         LET obj == Watched([NoRoute EXCEPT !.exists = TRUE, !.hostnames = hs], 1, 0)
         IN  event = [writer |-> "create", old |-> obj, new |-> obj, enqueued |-> TRUE]
    /\ steady = NoSteady
    /\ workers = NoWorkers
    /\ backend = {}
    /\ history = <<>>
    /\ dmEntries = TestDomainMap
    /\ lookupHostname = <<"">>
    /\ lookupResult = NoLookup
    /\ LoadedRegistry
    /\ store = NoRoute
    /\ upsert = FALSE
    /\ pc = "idle"
    /\ route = NoRoute
    /\ stale = FALSE
    /\ managedHostnames = NilSlice
    /\ currentHostnames = NilSlice
    /\ idx = 0
    /\ attempts = 0
    /\ passKind = "none"
    /\ calls = <<>>
    /\ wrote = "none"
    /\ result = "none"
    /\ first = NoRoute
    /\ lastErr = "none"
    /\ edits = 0

\* An Update stored new: the watch delivers the update event with the resource
\* before and after, and the filter answers whether the key is enqueued.
Updated(writer, new) ==
    /\ event' = [writer |-> writer, old |-> event.new, new |-> new,
                 enqueued |-> UpdateFunc(event.new, new)]
    /\ UNCHANGED <<store, backend, upsert, pc, route, stale, managedHostnames,
                   currentHostnames, idx, attempts, passKind, calls, wrote, result,
                   first, lastErr, edits, dmEntries, lookupHostname, lookupResult,
                   history, factories, registryCall, steady, workers>>

\* The reconciler's finalizer-adding write.
EventAddFinalizer ==
    /\ ~event.new.deleting
    /\ ~ContainsFinalizer(event.new, finalizerName)
    /\ Updated("addfin", AddFinalizer(event.new, finalizerName))

\* The reconciler's finalizer-removing write, on a resource another finalizer
\* keeps stored (without one the resource is gone and no update event comes).
EventRemoveFinalizer ==
    /\ event.new.deleting
    /\ ContainsFinalizer(event.new, finalizerName)
    /\ ContainsFinalizer(event.new, otherFinalizer)
    /\ Updated("rmfin", RemoveFinalizer(event.new, finalizerName))

\* The reconciler's annotation write, made when the annotation's list differs
\* from the declared one.
EventAnnotation ==
    /\ ~event.new.deleting
    /\ ContainsFinalizer(event.new, finalizerName)
    /\ LET managed == IF event.new.annotation.present
                      THEN JSONUnmarshal(event.new.annotation) ELSE NilSlice
           current == MakeSlice(event.new.hostnames)
       IN  /\ ~DeepEqual(managed, current)
           /\ Updated("ann", [event.new EXCEPT !.annotation = JSONMarshal(current)])

\* Another controller writes the resource's status.
EventStatus ==
    Updated("status", [event.new EXCEPT !.status = 1 - @])

\* The user edits the hostname list: the API server raises the generation.
EventSetHostnames ==
    /\ ~event.new.deleting
    /\ event.new.generation < MaxGeneration
    /\ \E hs \in HostLists :
         /\ hs # event.new.hostnames
         /\ Updated("spec", [event.new EXCEPT !.hostnames = hs, !.generation = @ + 1])

\* The user deletes a resource that holds a finalizer: the deletion marker is
\* set; whether the API server raises the generation with it is left open.
EventDelete ==
    /\ ~event.new.deleting
    /\ event.new.finalizers # {}
    /\ event.new.generation < MaxGeneration
    /\ \E g \in {event.new.generation, event.new.generation + 1} :
         Updated("delete", [event.new EXCEPT !.deleting = TRUE, !.generation = g])

\* Another controller adds or removes its finalizer.
EventOtherFinalizer ==
    \/ /\ ~event.new.deleting
       /\ ~ContainsFinalizer(event.new, otherFinalizer)
       /\ Updated("otherfin", AddFinalizer(event.new, otherFinalizer))
    \/ /\ ContainsFinalizer(event.new, otherFinalizer)
       /\ ContainsFinalizer(event.new, finalizerName)
       /\ Updated("otherfin", RemoveFinalizer(event.new, otherFinalizer))

EventNext ==
    \/ EventAddFinalizer
    \/ EventRemoveFinalizer
    \/ EventAnnotation
    \/ EventStatus
    \/ EventSetHostnames
    \/ EventDelete
    \/ EventOtherFinalizer

EventSpec == EventInit /\ [][EventNext]_vars

\* C33: An update event is enqueued exactly when the generation or the number
\* of finalizers differs between the old and the new resource; the event of
\* the reconciler's finalizer-adding write is enqueued, the events of its
\* annotation write and of a status write are not.
C33_UpdateFilter ==
    event.writer \notin {"none", "create"}
       => /\ event.enqueued <=>
                \/ event.old.generation # event.new.generation
                \/ Cardinality(event.old.finalizers) # Cardinality(event.new.finalizers)
          /\ event.writer = "addfin" => event.enqueued
          /\ event.writer \in {"ann", "status"} => ~event.enqueued

\* The finalizer-adding write to a resource that declares a hostname was
\* enqueued with the generation unchanged.
C33_Witness ==
    /\ event.writer = "addfin"
    /\ event.enqueued
    /\ event.old.generation = event.new.generation
    /\ Len(event.new.hostnames) > 0
    /\ ~event.new.annotation.present

(* --------------------------- passes in parallel ------------------------ *)

\* The keys of two HTTPRoutes; a pass for one runs beside a pass for the other.
Keys == {"default/route-a", "default/route-b"}

\* The hostname lists the two resources declare.
ParallelLists == {l \in HostLists : Len(l) <= 1}

\* The resource under a key with no pass running for it.  ensured: the
\* hostnames whose record the key's last successful active pass created,
\* updated or found.
IdleWorker(obj) ==
    [obj |-> obj, pc |-> "idle", route |-> NoRoute, managed |-> NilSlice,
     current |-> NilSlice, idx |-> 0, result |-> "none", ensured |-> {}]

\* Two resources as their users created them and an empty backend.
ParallelInit ==
    /\ workers \in [Keys -> {IdleWorker([NoRoute EXCEPT !.exists = TRUE,
                                                       !.hostnames = hs])
                             : hs \in ParallelLists}]
    /\ backend = {}
    /\ upsert \in BOOLEAN
    /\ edits = 0
    /\ event = NoEvent
    /\ steady = NoSteady
    /\ history = <<>>
    /\ dmEntries = TestDomainMap
    /\ lookupHostname = <<"">>
    /\ lookupResult = NoLookup
    /\ LoadedRegistry
    /\ store = NoRoute
    /\ pc = "idle"
    /\ route = NoRoute
    /\ stale = FALSE
    /\ managedHostnames = NilSlice
    /\ currentHostnames = NilSlice
    /\ idx = 0
    /\ attempts = 0
    /\ passKind = "none"
    /\ calls = <<>>
    /\ wrote = "none"
    /\ result = "none"
    /\ first = NoRoute
    /\ lastErr = "none"

\* What the pool's steps leave alone.
ParallelUnchanged ==
    UNCHANGED <<store, upsert, pc, route, stale, managedHostnames, currentHostnames,
                idx, attempts, passKind, calls, wrote, result, first, lastErr,
                dmEntries, lookupHostname, lookupResult, history, factories,
                registryCall, event, steady>>

\* The hostnames of a pass's copy that the domain map resolves: those the
\* create/upsert loop handled when the pass returns success.
Ensured(obj) ==
    {obj.hostnames[i] : i \in {n \in 1..Len(obj.hostnames) :
                                  LookupIP(TestDomainMap, Labels(obj.hostnames[n])).ok}}

\* The pass of a key returns.
WorkerReturn(w, res) ==
    [w EXCEPT !.pc = "idle", !.result = res, !.route = NoRoute, !.managed = NilSlice,
              !.current = NilSlice, !.idx = 0,
              !.ensured = IF res = "ok" /\ w.pc \in {"cur", "create", "update", "ann_get",
                                                     "rm", "idle"}
                          THEN Ensured(w.route) ELSE @]

\* The pass of a key goes on to its next blocking call, or returns success.
WorkerGoto(w, pos) ==
    IF pos.done THEN WorkerReturn(w, "ok")
    ELSE [w EXCEPT !.pc = pos.pc, !.idx = pos.idx]

\* The initial read of a pass and the branch it takes.
WorkerGet(k) ==
    LET w == workers[k]
        obj == w.obj
        managed == IF obj.annotation.present THEN JSONUnmarshal(obj.annotation)
                   ELSE NilSlice
        current == MakeSlice(obj.hostnames)
        read == [w EXCEPT !.route = obj, !.managed = managed, !.current = current,
                          !.result = "running"]
    IN  /\ w.pc = "idle"
        /\ obj.exists
        /\ workers' = [workers EXCEPT ![k] =
              IF obj.deleting
              THEN IF ~ContainsFinalizer(obj, finalizerName)
                   THEN [w EXCEPT !.result = "ok"]
                   ELSE IF Len(obj.hostnames) > 0
                        THEN [read EXCEPT !.pc = "del", !.idx = 1]
                        ELSE [read EXCEPT !.pc = "rmfin"]
              ELSE IF ~ContainsFinalizer(obj, finalizerName)
                   THEN [read EXCEPT !.pc = "addfin"]
                   ELSE WorkerGoto(read, AfterRemoved(managed, current, obj.hostnames, 1))]
        /\ UNCHANGED <<backend, edits>>
        /\ ParallelUnchanged

\* A retry loop of a pass, run to its end with no write of another actor in
\* between: re-fetch, mutate, Update.
WorkerWrite(k, at, mutated) ==
    LET w == workers[k]
        out == StoreUpdate(w.obj, mutated, FALSE)
    IN  /\ w.pc = at
        /\ workers' = [workers EXCEPT ![k] =
              [WorkerReturn(w, IF out.res = "ok" THEN "ok" ELSE "err")
                  EXCEPT !.obj = out.store]]
        /\ UNCHANGED <<backend, edits>>
        /\ ParallelUnchanged

WorkerAddFinalizer(k) ==
    WorkerWrite(k, "addfin", AddFinalizer(workers[k].obj, finalizerName))

WorkerRemoveFinalizer(k) ==
    WorkerWrite(k, "rmfin", RemoveFinalizer(workers[k].obj, finalizerName))

WorkerAnnotation(k) ==
    WorkerWrite(k, "ann_get",
                [workers[k].obj EXCEPT !.annotation = JSONMarshal(workers[k].current)])

\* Delete of the removed-hostnames loop.
WorkerRemovedDelete(k) ==
    LET w == workers[k]
    IN  /\ w.pc = "rm"
        /\ \E out \in ProviderDelete(backend, w.managed.elems[w.idx], "A") :
             /\ backend' = out.rows
             /\ workers' = [workers EXCEPT ![k] =
                   IF out.err THEN WorkerReturn(w, "err")
                   ELSE WorkerGoto(w, AfterRemoved(w.managed, w.current,
                                                   w.route.hostnames, w.idx + 1))]
        /\ UNCHANGED edits
        /\ ParallelUnchanged

\* Exists for the hostname at hand: the reconciler's own call in create-only
\* mode, the first call of Provider.Upsert in upsert mode.
WorkerExists(k) ==
    LET w == workers[k]
        hostname == w.route.hostnames[w.idx]
    IN  /\ w.pc = "cur"
        /\ \E e \in ProviderExists(backend, hostname, "A") :
             workers' = [workers EXCEPT ![k] =
                IF e.err THEN WorkerReturn(w, "err")
                ELSE IF ~e.found THEN [w EXCEPT !.pc = "create"]
                ELSE IF upsert THEN [w EXCEPT !.pc = "update"]
                ELSE WorkerGoto(w, AfterCurrent(w.managed, w.current,
                                                w.route.hostnames, w.idx + 1))]
        /\ UNCHANGED <<backend, edits>>
        /\ ParallelUnchanged

\* The dns.Record a pass builds for the hostname at hand.
WorkerRecord(k) ==
    LET hostname == workers[k].route.hostnames[workers[k].idx]
    IN  BuildRecord(hostname, LookupIP(TestDomainMap, Labels(hostname)).ip)

\* Create or Update after Exists answered, with the outcomes of the call: the
\* reconciler's Create, or the second call of Provider.Upsert.
WorkerMutate(k, at, outcomes) ==
    LET w == workers[k]
    IN  /\ w.pc = at
        /\ \E out \in outcomes :
             /\ backend' = out.rows
             /\ workers' = [workers EXCEPT ![k] =
                   IF out.err THEN WorkerReturn(w, "err")
                   ELSE WorkerGoto(w, AfterCurrent(w.managed, w.current,
                                                   w.route.hostnames, w.idx + 1))]
        /\ UNCHANGED edits
        /\ ParallelUnchanged

WorkerCreate(k) == WorkerMutate(k, "create", ProviderCreate(backend, WorkerRecord(k)))

WorkerUpdate(k) == WorkerMutate(k, "update", ProviderUpdate(backend, WorkerRecord(k)))

\* Delete of the cleanup loop of the deletion branch.
WorkerCleanupDelete(k) ==
    LET w == workers[k]
    IN  /\ w.pc = "del"
        /\ \E out \in ProviderDelete(backend, w.route.hostnames[w.idx], "A") :
             /\ backend' = out.rows
             /\ workers' = [workers EXCEPT ![k] =
                   IF out.err THEN WorkerReturn(w, "err")
                   ELSE IF w.idx < Len(w.route.hostnames)
                        THEN [w EXCEPT !.idx = @ + 1]
                        ELSE [w EXCEPT !.pc = "rmfin", !.idx = 0]]
        /\ UNCHANGED edits
        /\ ParallelUnchanged

\* A user edits the hostname list of a resource, or deletes the resource.
ParallelUser(k, new) ==
    /\ workers[k].obj.exists
    /\ ~workers[k].obj.deleting
    /\ edits < MaxEdits
    /\ edits' = edits + 1
    /\ new # workers[k].obj
    /\ workers' = [workers EXCEPT ![k].obj = Settle(new)]
    /\ UNCHANGED backend
    /\ ParallelUnchanged

ParallelSetHostnames(k) ==
    \E hs \in ParallelLists : ParallelUser(k, [workers[k].obj EXCEPT !.hostnames = hs])

ParallelDelete(k) == ParallelUser(k, [workers[k].obj EXCEPT !.deleting = TRUE])

ParallelNext ==
    \E k \in Keys :
       \/ WorkerGet(k)
       \/ WorkerAddFinalizer(k)
       \/ WorkerRemoveFinalizer(k)
       \/ WorkerAnnotation(k)
       \/ WorkerRemovedDelete(k)
       \/ WorkerExists(k)
       \/ WorkerCreate(k)
       \/ WorkerUpdate(k)
       \/ WorkerCleanupDelete(k)
       \/ ParallelSetHostnames(k)
       \/ ParallelDelete(k)

ParallelSpec == ParallelInit /\ [][ParallelNext]_vars

\* C37: The backend holds at most one A record for a hostname, however the
\* passes for the two keys interleave.
C37_AtMostOneRecordPerName ==
    \A h \in Hosts : Cardinality(Matching(backend, h, "A")) <= 1

\* The resource under key j is active, declares h, and its last successful
\* pass created, updated or found the record of h.
Guards(j, h) ==
    /\ workers[j].obj.exists
    /\ ~workers[j].obj.deleting
    /\ ContainsFinalizer(workers[j].obj, finalizerName)
    /\ Contains(workers[j].obj.hostnames, h)
    /\ h \in workers[j].ensured

\* C40: No step of a pass for a key removes from the backend a record of a
\* hostname that the active resource under another key declares and has ensured.
C40_NoDeleteOfAnotherKeysRecord ==
    [][\A k \in Keys :
          workers'[k] # workers[k]
             => \A r \in {x \in backend : x.uuid \notin UsedUUIDs(backend')} :
                   \A j \in Keys \ {k} : \A h \in Hosts :
                      Guards(j, h) => r \notin Matching(backend, h, "A")]_vars

====
